---- MODULE Spec2Model ----
(***************************************************************************)
(* The session cache, cooldown gates, inventory mutators and trade and     *)
(* pick handlers of the card bot (src/index.js), as a state machine.       *)
(*                                                                         *)
(* A command handler is an async function.  It runs without interruption   *)
(* from one suspension point to the next; the suspension points are the    *)
(* awaited I/O calls (durable-store calls, replies to the messaging        *)
(* platform, image composition).  An await of getUserData that hits the    *)
(* cache suspends for a microtask only, which no other handler's I/O       *)
(* completion or dispatch can interleave with, so a cache hit is part of   *)
(* the step that performs it.  Each action below is one such step of one   *)
(* handler.                                                                *)
(*                                                                         *)
(* Session objects live in `heap`; `userData` maps a user to the object    *)
(* currently cached for it (0: not cached), and a handler keeps the        *)
(* reference it obtained, as the JavaScript does.                          *)
(***************************************************************************)
EXTENDS Integers, Sequences, FiniteSets, TLC

VARIABLES
    cards,      \* the catalog: sequence of card ids, fixed after startup
    testMode,   \* TEST_MODE of the process environment
    idPool,     \* the tokens the random source of the id generator yields
    userData,   \* the session cache: user -> index into heap, 0 = not cached
    heap,       \* the session objects ever created, by reference
    dbUsers,    \* durable table users: user -> row
    dbInv,      \* durable table inventory: sequence of rows, in insertion order
    clock,      \* Date.now()
    ticks,      \* advances of the clock so far
    offers,     \* the trade messages posted, with their Accept/Decline buttons
    hs,         \* the handler invocations: slot -> locals and position
    fin,        \* the handler that returned in the last step, and its response
    imageCache,         \* url -> decoded image
    combinedImageCache, \* cache key -> composite buffer
    calls,      \* the combineCardImages calls: slot -> locals and position
    ret         \* the combineCardImages call that returned in the last step

imageVars == <<imageCache, combinedImageCache, calls, ret>>

vars ==
    <<cards, testMode, idPool, userData, heap, dbUsers, dbInv, clock, ticks, offers, hs,
      fin, imageVars>>

----------------------------------------------------------------------------
(* Bounds of the model *)

\* handler invocations in one behaviour
MaxHandlers == 3
\* size of the pool the instance-id generator draws from
NumIds == 2
\* handlers in progress at the same time
MaxRunning == 2
\* advances of the clock in one behaviour
MaxTicks == 2

Users == {"A", "B", "C"}
Handlers == 1..MaxHandlers

\* The accounts whose `bot` flag is set: they can be named as the trainer of
\* a /trade, and they issue no command.
Bots == {"Bot"}
InstanceIds == 1..NumIds

----------------------------------------------------------------------------
(* Configuration *)

TEST_MODE == testMode
DRAW_COOLDOWN == IF TEST_MODE THEN 0 ELSE 15 * 60 * 1000
PACK_COOLDOWN == IF TEST_MODE THEN 0 ELSE 10 * 60 * 1000
PICK_COOLDOWN == IF TEST_MODE THEN 0 ELSE 30 * 60 * 1000
packSize == 5
pickSize == 3

\* What `new Date(0).toISOString()` leaves in a timestamp field: a string, on
\* which the arithmetic of the gate yields NaN.
IsoEpoch == -1

\* The clock of a started process is far more than any cooldown past the epoch.
StartClock == 2 * 30 * 60 * 1000
ClockSteps == {1, 10 * 60 * 1000, 15 * 60 * 1000, 30 * 60 * 1000}

----------------------------------------------------------------------------
(* Data *)

Range(s) == {s[i] : i \in 1..Len(s)}

\* An inventory entry.  The code writes three shapes of the same entry:
\* {card_id, obtained_at} (durable rows, text draw, button draw),
\* {cardId, obtainedAt} (slash draw, packs, pick) and both (trade).
Entry(cardId, obtainedAt, instanceId, shape) ==
    [cardId |-> cardId, obtainedAt |-> obtainedAt, instanceId |-> instanceId,
     shape |-> shape]

Row(userId, cardId, obtainedAt, instanceId) ==
    [user_id |-> userId, card_id |-> cardId, obtained_at |-> obtainedAt,
     instance_id |-> instanceId]

NoUserRow == [exists |-> FALSE, last_draw |-> 0, last_pack |-> 0, last_pick |-> 0]
UserRow(d, p, k) == [exists |-> TRUE, last_draw |-> d, last_pack |-> p, last_pick |-> k]

\* gained is not a field of the code's object: it counts the entries added
\* from the pick choices since they were last stored.
Session(inv, d, p, k) ==
    [inventory |-> inv, lastDraw |-> d, lastPack |-> p, lastPick |-> k,
     pickChoices |-> <<>>, gained |-> 0]

\* The fallback of getUserData's catch block, and the object /reset_me installs
\* (which has no pickChoices field: every reader treats that as empty).
EmptySession == Session(<<>>, 0, 0, 0)

\* entry.card_id || entry.cardId
CardIdOf(entry) == entry.cardId

\* removed.cardId and removed.obtainedAt, as /trash reads them: undefined on an
\* entry that has only the snake-case fields.
HasCamel(entry) == entry.shape \in {"camel", "both"}

\* inventory.findIndex(entry => (entry.instance_id || entry.instanceId) === instanceId):
\* the first position holding the instance, 0 when there is none (the code's -1).
FindIndex(inv, instanceId) ==
    IF \E i \in 1..Len(inv) : inv[i].instanceId = instanceId
    THEN CHOOSE i \in 1..Len(inv) :
            /\ inv[i].instanceId = instanceId
            /\ \A j \in 1..(i - 1) : inv[j].instanceId # instanceId
    ELSE 0

\* inventory.splice(index, 1)
Splice(inv, i) == SubSeq(inv, 1, i - 1) \o SubSeq(inv, i + 1, Len(inv))

\* The rows of a user ordered by obtained_at ascending (rows of equal
\* obtained_at in table order), decoded as snake-case entries.
SortedRows(rows) ==
    LET before(j, i) ==
            \/ rows[j].obtained_at < rows[i].obtained_at
            \/ rows[j].obtained_at = rows[i].obtained_at /\ j < i
        place(i) == Cardinality({j \in 1..Len(rows) : before(j, i)}) + 1
    IN  [k \in 1..Len(rows) |-> rows[CHOOSE i \in 1..Len(rows) : place(i) = k]]

RowsOf(userId) == SelectSeq(dbInv, LAMBDA r : r.user_id = userId)

\* A load that does not read instance_id.
LoadedInventoryUnkeyed(userId) ==
    LET rows == SortedRows(RowsOf(userId))
    IN  [i \in 1..Len(rows) |->
            Entry(rows[i].card_id, rows[i].obtained_at, 0, "snake")]

LoadedInventory(userId) ==
    LET rows == SortedRows(RowsOf(userId))
    IN  [i \in 1..Len(rows) |->
            Entry(rows[i].card_id, rows[i].obtained_at, rows[i].instance_id, "snake")]

\* generateCardInstanceId: a random token, with no check against the ids
\* already issued.
generateCardInstanceId == idPool

\* randomCard: a uniformly drawn definition (the caller has seen cards.length > 0).
randomCard == Range(cards)

\* The gate with the boundary on the other side: an action exactly one
\* cooldown old is still refused.
OnCooldownInclusive(now, last, cooldown) == last # IsoEpoch /\ now - last <= cooldown

\* now - last < cooldown.  A timestamp that is not a number makes the
\* difference NaN, and every comparison with NaN is false.
OnCooldown(now, last, cooldown) == last # IsoEpoch /\ now - last < cooldown

----------------------------------------------------------------------------
(* Handler invocations *)

\* kind: the command; via: its entry point (slash command, button or text
\* command); pc: the suspension point the handler waits at.
\* Locals: now (Date.now() at dispatch), data (the session reference it got),
\* target/ret (the getUserData call in progress and where it returns to),
\* lu (the users row that call read), card/iid/i (the card being added and the
\* pack loop counter), arg (index, slot or offer), at (obtained_at of the row
\* a durable call is about), shape (of the entry /trash removed), peer (the
\* other user of a trade), payload (the row a saveUserCooldowns call sends).
\* Recorded for the properties: resp (the response), gate and last (the
\* outcome of the cooldown check and the timestamp it read), wr (durable
\* inventory writes issued), failed (a durable insert of this handler
\* failed), note (the resolution of an offer decided in this step), xfer
\* (inventory lengths and instance counts around a transfer), delta (the
\* entries a draw, pack or trash has added, less those it removed), remaining and text
\* (the wait a denial computed and the duration its reply shows).
NoTransfer ==
    [did |-> FALSE, sLen0 |-> 0, rLen0 |-> 0, pair0 |-> 0, all0 |-> 0,
     sLen1 |-> 0, rLen1 |-> 0, pair1 |-> 0, all1 |-> 0, card0 |-> "none",
     card1 |-> "none", iid1 |-> 0]

IdleHandler ==
    [kind |-> "none", pc |-> "idle", user |-> "none", now |-> 0, data |-> 0,
     target |-> "none", ret |-> "none", lu |-> NoUserRow,
     via |-> "none", card |-> "none", iid |-> 0, i |-> 0, arg |-> 0, at |-> 0,
     shape |-> "none", peer |-> "none", payload |-> NoUserRow,
     resp |-> "none", gate |-> "none", last |-> 0, wr |-> 0, failed |-> FALSE,
     note |-> "none", xfer |-> NoTransfer, delta |-> 0, remaining |-> 0, text |-> "",
     choices |-> <<>>]

\* A slot whose handler has returned.
Retired == [IdleHandler EXCEPT !.pc = "done"]

Started(h) == hs[h].pc # "idle"
Running(h) == hs[h].pc \notin {"idle", "done"}

\* A handler at its end, with its response.
Done(r, resp) == [r EXCEPT !.pc = "done", !.resp = resp]

\* What is kept of the handler that returned in the last step.
NoFin ==
    [kind |-> "none", via |-> "none", user |-> "none", now |-> 0, arg |-> 0,
     resp |-> "none", gate |-> "none", last |-> 0, wr |-> 0, failed |-> FALSE,
     delta |-> 0, remaining |-> 0, text |-> ""]

Summary(r) ==
    [kind |-> r.kind, via |-> r.via, user |-> r.user, now |-> r.now, arg |-> r.arg,
     resp |-> r.resp, gate |-> r.gate, last |-> r.last, wr |-> r.wr,
     failed |-> r.failed, delta |-> r.delta, remaining |-> r.remaining, text |-> r.text]

\* A session object nothing refers to any more.
Collected == [EmptySession EXCEPT !.gained = -1]

\* The state a step of handler h leaves: its locals r, the heap and the
\* cache, and the offers.  The slot of a handler that returned is retired;
\* session objects that neither the cache nor a running handler holds are
\* collected.
LeaveWith(h, r, hp, ud, of) ==
    LET hs2 == [hs EXCEPT ![h] = IF r.pc = "done" THEN Retired
                                 ELSE [r EXCEPT !.note = "none"]]
        live == {ud[u] : u \in Users} \cup {hs2[g].data : g \in Handlers}
    IN
    /\ hs' = hs2
    /\ heap' = [i \in 1..Len(hp) |-> IF i \in live THEN hp[i] ELSE Collected]
    /\ userData' = ud
    /\ offers' = of
    /\ fin' = IF r.pc = "done" THEN Summary(r) ELSE NoFin

\* A synchronous region touches the handler's locals, the heap and the
\* cache; the resolution it decided is recorded with the offer.
Leave(h, r, hp, ud) ==
    LeaveWith(h, r, hp, ud,
              IF r.note = "none" THEN offers
              ELSE [offers EXCEPT ![r.arg].outcomes = Append(@, r.note)])

----------------------------------------------------------------------------
(* Counting instances *)

CountIn(inv, instanceId) ==
    Cardinality({i \in 1..Len(inv) : inv[i].instanceId = instanceId})

RECURSIVE SumOver(_, _, _)
SumOver(S, f(_), acc) ==
    IF S = {} THEN acc
    ELSE LET x == CHOOSE y \in S : TRUE IN SumOver(S \ {x}, f, acc + f(x))

\* Entries bearing the instance id, over the sessions the cache holds.
CountAll(hp, ud, instanceId) ==
    LET n(u) == IF ud[u] = 0 THEN 0 ELSE CountIn(hp[ud[u]].inventory, instanceId)
    IN  SumOver(Users, n, 0)

----------------------------------------------------------------------------
(* The synchronous regions of the handlers: what runs between two awaits.   *)
(* Each takes the handler slot, its locals and the heap and cache it starts *)
(* from, and leaves the handler at its next await or at its end.            *)

Push(hp, ref, entry) ==
    [hp EXCEPT ![ref].inventory = Append(@, entry)]

CooldownPayload(s) == UserRow(s.lastDraw, s.lastPack, s.lastPick)

\* msToNice with Math.floor in place of Math.ceil.
msToNiceFloor(ms) ==
    LET totalSeconds == ms \div 1000
        minutes == totalSeconds \div 60
        seconds == totalSeconds % 60
    IN  IF minutes > 0
        THEN ToString(minutes) \o "m " \o ToString(seconds) \o "s"
        ELSE ToString(seconds) \o "s"

\* msToNice: whole seconds, rounded up, as "<m>m <s>s" or "<s>s".
msToNice(ms) ==
    LET totalSeconds == (ms + 999) \div 1000
        minutes == totalSeconds \div 60
        seconds == totalSeconds % 60
    IN  IF minutes > 0
        THEN ToString(minutes) \o "m " \o ToString(seconds) \o "s"
        ELSE ToString(seconds) \o "s"

\* The denial: `You can ... again in **${msToNice(remaining)}**`.
Denied(r, remaining) ==
    Done([r EXCEPT !.gate = "denied", !.remaining = remaining,
                   !.text = msToNice(remaining)], "cooldown")

\* /draw, btn_draw, `kd`: gate, card, then (text: after the loading reply)
\* the push and the timestamp.
DrawShape(via) == IF via = "slash" THEN "camel" ELSE "snake"

DrawPushShared(h, r, hp, ud) ==
    \E id \in generateCardInstanceId :
        Leave(h, [r EXCEPT !.pc = "insert", !.iid = id, !.at = r.now, !.delta = @ + 1],
              [Push(hp, r.data, Entry(r.card, r.now, id, DrawShape(r.via)))
                  EXCEPT ![r.data].lastDraw = r.now, ![r.data].lastPack = r.now],
              ud)

DrawPush(h, r, hp, ud) ==
    \E id \in generateCardInstanceId :
        Leave(h, [r EXCEPT !.pc = "insert", !.iid = id, !.at = r.now, !.delta = @ + 1],
              [Push(hp, r.data, Entry(r.card, r.now, id, DrawShape(r.via)))
                  EXCEPT ![r.data].lastDraw = r.now],
              ud)

DrawBody(h, r, hp, ud) ==
    LET s == hp[r.data]
        checked == [r EXCEPT !.last = s.lastDraw]
    IN
    IF r.via = "slash" /\ Len(cards) = 0
    THEN Leave(h, Done(r, "nocards"), hp, ud)
    ELSE IF OnCooldown(r.now, s.lastDraw, DRAW_COOLDOWN)
    THEN Leave(h, Denied(checked, DRAW_COOLDOWN - (r.now - s.lastDraw)), hp, ud)
    ELSE IF Len(cards) = 0
    THEN Leave(h, Done([checked EXCEPT !.gate = "passed"], "nocards"), hp, ud)
    ELSE \E c \in randomCard :
            LET r2 == [checked EXCEPT !.gate = "passed", !.card = c]
            IN  IF r.via = "text"
                THEN Leave(h, [r2 EXCEPT !.pc = "loading"], hp, ud)
                ELSE DrawPush(h, r2, hp, ud)

\* A pack loop that runs once more than packSize.
PackIterOneMore(h, r, hp, ud) ==
    IF r.i <= packSize /\ Len(cards) > 0
    THEN \E c \in randomCard : \E id \in generateCardInstanceId :
            Leave(h, [r EXCEPT !.pc = "insert", !.card = c, !.iid = id, !.at = r.now,
                                   !.delta = @ + 1],
                  Push(hp, r.data,
                       Entry(c, r.now, id, IF r.via = "text" THEN "snake" ELSE "camel")),
                  ud)
    ELSE LET hp2 == [hp EXCEPT ![r.data].lastPack = r.now]
         IN  Leave(h, [r EXCEPT !.pc = "save", !.payload = CooldownPayload(hp2[r.data])],
                   hp2, ud)

\* The pack loop, from iteration r.i on: a card is pushed and its insert
\* awaited; after the last one (or at once on an empty catalog) the
\* timestamp is written and saved.
PackIter(h, r, hp, ud) ==
    IF r.i < packSize /\ Len(cards) > 0
    THEN \E c \in randomCard : \E id \in generateCardInstanceId :
            Leave(h, [r EXCEPT !.pc = "insert", !.card = c, !.iid = id, !.at = r.now,
                                   !.delta = @ + 1],
                  Push(hp, r.data,
                       Entry(c, r.now, id, IF r.via = "text" THEN "snake" ELSE "camel")),
                  ud)
    ELSE LET hp2 == [hp EXCEPT ![r.data].lastPack = r.now]
         IN  Leave(h, [r EXCEPT !.pc = "save", !.payload = CooldownPayload(hp2[r.data])],
                   hp2, ud)

PackBody(h, r, hp, ud) ==
    LET s == hp[r.data]
        checked == [r EXCEPT !.last = s.lastPack]
    IN
    IF r.via = "slash" /\ Len(cards) = 0
    THEN Leave(h, Done(r, "nocards"), hp, ud)
    ELSE IF OnCooldown(r.now, s.lastPack, PACK_COOLDOWN)
    THEN Leave(h, Denied(checked, PACK_COOLDOWN - (r.now - s.lastPack)), hp, ud)
    ELSE IF r.via = "text"
    THEN Leave(h, [checked EXCEPT !.gate = "passed", !.pc = "loading"], hp, ud)
    ELSE PackIter(h, [checked EXCEPT !.gate = "passed"], hp, ud)

\* A pick start that keeps the choices of a pick that is still unresolved.
PickBodyKeeps(h, r, hp, ud) ==
    LET s == hp[r.data]
        checked == [r EXCEPT !.last = s.lastPick]
    IN
    IF OnCooldown(r.now, s.lastPick, PICK_COOLDOWN)
    THEN Leave(h, Denied(checked, PICK_COOLDOWN - (r.now - s.lastPick)), hp, ud)
    ELSE IF Len(cards) = 0
    THEN Leave(h, Done([checked EXCEPT !.gate = "passed"], "nocards"), hp, ud)
    ELSE \E choices \in [1..pickSize -> randomCard] :
            LET hp2 == [hp EXCEPT ![r.data].lastPick = r.now,
                                  ![r.data].pickChoices = IF @ = <<>> THEN choices ELSE @,
                                  ![r.data].gained = 0]
                r2 == [checked EXCEPT !.gate = "passed", !.choices = choices]
            IN  IF r.via = "text"
                THEN Leave(h, [r2 EXCEPT !.pc = "save",
                                         !.payload = CooldownPayload(hp2[r.data])],
                           hp2, ud)
                ELSE Leave(h, [r2 EXCEPT !.pc = "compose"], hp2, ud)

\* /pick, `pick`: gate, three independent draws, timestamp and choices.
PickBody(h, r, hp, ud) ==
    LET s == hp[r.data]
        checked == [r EXCEPT !.last = s.lastPick]
    IN
    IF OnCooldown(r.now, s.lastPick, PICK_COOLDOWN)
    THEN Leave(h, Denied(checked, PICK_COOLDOWN - (r.now - s.lastPick)), hp, ud)
    ELSE IF Len(cards) = 0
    THEN Leave(h, Done([checked EXCEPT !.gate = "passed"], "nocards"), hp, ud)
    ELSE \E choices \in [1..pickSize -> randomCard] :
            LET hp2 == [hp EXCEPT ![r.data].lastPick = r.now,
                                  ![r.data].pickChoices = choices,
                                  ![r.data].gained = 0]
                r2 == [checked EXCEPT !.gate = "passed", !.choices = choices]
            IN  IF r.via = "text"
                THEN Leave(h, [r2 EXCEPT !.pc = "save",
                                         !.payload = CooldownPayload(hp2[r.data])],
                           hp2, ud)
                ELSE Leave(h, [r2 EXCEPT !.pc = "compose"], hp2, ud)

\* btn_pick_<slot>: the chosen card is pushed and its insert awaited; the
\* choices are cleared after that await (ResolveClear).
ResolveBodyWrapping(h, r, hp, ud) ==
    LET s == hp[r.data] IN
    IF Len(s.pickChoices) = 0
    THEN Leave(h, Done(r, "nosession"), hp, ud)
    ELSE \E id \in generateCardInstanceId :
            LET c == s.pickChoices[(r.arg % Len(s.pickChoices)) + 1]
            IN  Leave(h, [r EXCEPT !.pc = "insert", !.card = c, !.iid = id, !.at = r.now],
                      [Push(hp, r.data, Entry(c, r.now, id, "camel"))
                          EXCEPT ![r.data].gained = @ + 1],
                      ud)

ResolveBody(h, r, hp, ud) ==
    LET s == hp[r.data] IN
    IF Len(s.pickChoices) = 0
    THEN Leave(h, Done(r, "nosession"), hp, ud)
    ELSE IF r.arg < 0 \/ r.arg + 1 > Len(s.pickChoices)
    THEN Leave(h, Done(r, "invalid"), hp, ud)
    ELSE \E id \in generateCardInstanceId :
            LET c == s.pickChoices[r.arg + 1]
            IN  Leave(h, [r EXCEPT !.pc = "insert", !.card = c, !.iid = id, !.at = r.now],
                      [Push(hp, r.data, Entry(c, r.now, id, "camel"))
                          EXCEPT ![r.data].gained = @ + 1],
                      ud)

ResolveClear(h, r, hp, ud) ==
    Leave(h, Done(r, "ok"), [hp EXCEPT ![r.data].pickChoices = <<>>], ud)

\* A /trash that removes the first entry whatever the index.
TrashBodyFirst(h, r, hp, ud) ==
    LET inv == hp[r.data].inventory IN
    IF r.arg < 0 \/ r.arg >= Len(inv)
    THEN Leave(h, Done(r, "invalid"), hp, ud)
    ELSE LET removed == inv[1]
         IN  Leave(h, [r EXCEPT !.pc = "trash_delete", !.card = removed.cardId,
                                !.at = removed.obtainedAt, !.iid = removed.instanceId,
                                !.shape = removed.shape, !.delta = @ - 1],
                   [hp EXCEPT ![r.data].inventory = Splice(inv, 1)], ud)

\* /trash <index>: positional removal, then the durable delete is awaited.
TrashBody(h, r, hp, ud) ==
    LET inv == hp[r.data].inventory IN
    IF r.arg < 0 \/ r.arg >= Len(inv)
    THEN Leave(h, Done(r, "invalid"), hp, ud)
    ELSE LET removed == inv[r.arg + 1]
         IN  Leave(h, [r EXCEPT !.pc = "trash_delete", !.card = removed.cardId,
                                !.at = removed.obtainedAt, !.iid = removed.instanceId,
                                !.shape = removed.shape, !.delta = @ - 1],
                   [hp EXCEPT ![r.data].inventory = Splice(inv, r.arg + 1)], ud)

\* /reset_me: a new object replaces the cached one.
ResetBody(h, r, hp, ud) ==
    Leave(h, [r EXCEPT !.pc = "reset_delete"],
          Append(hp, EmptySession), [ud EXCEPT ![r.user] = Len(hp) + 1])

\* /trade <card> <trainer>: the proposal; the message with the buttons is
\* posted by the reply (PostOffer).
TradeBody(h, r, hp, ud) ==
    IF r.peer = r.user
    THEN Leave(h, Done(r, "self"), hp, ud)
    ELSE IF r.peer \in Bots
    THEN Leave(h, Done(r, "bot"), hp, ud)
    ELSE IF FindIndex(hp[r.data].inventory, r.iid) = 0
    THEN Leave(h, Done(r, "nocard"), hp, ud)
    ELSE Leave(h, [r EXCEPT !.pc = "post"], hp, ud)

\* A stale offer that goes on to the durable delete instead of returning.
StaleAbortProceeds(h, r, hp, ud) ==
    Leave(h, [r EXCEPT !.pc = "trade_delete", !.resp = "stale", !.note = "stale",
                       !.iid = offers[r.arg].instanceId],
          hp, ud)

\* trade_accept, the card is no longer with the sender: the message is
\* updated and the handler returns.
StaleAbort(h, r, hp, ud) ==
    Leave(h, [r EXCEPT !.pc = "update", !.resp = "stale", !.note = "stale"], hp, ud)

\* trade_accept, after both sessions are at hand: the re-validation and the
\* transfer.  receiverData is a cache hit: the prelude loaded the receiver.
\* From here on r.data stands for receiverData.
AcceptTransfer(h, r, hp, ud) ==
    LET o == offers[r.arg]
        sref == ud[o.sender]
        rref == ud[o.receiver]
        idx == FindIndex(hp[sref].inventory, o.instanceId)
    IN
    IF idx = 0
    THEN StaleAbort(h, r, hp, ud)
    ELSE LET cardEntry == hp[sref].inventory[idx]
             cardId == CardIdOf(cardEntry)
             hp1 == [hp EXCEPT ![sref].inventory = Splice(@, idx)]
             hp2 == Push(hp1, rref, Entry(cardId, clock, o.instanceId, "both"))
             pair(x) == CountIn(x[sref].inventory, o.instanceId)
                        + CountIn(x[rref].inventory, o.instanceId)
             got == hp2[rref].inventory[Len(hp2[rref].inventory)]
         IN  Leave(h, [r EXCEPT !.pc = "trade_delete", !.data = rref, !.card = cardId,
                                !.iid = o.instanceId, !.at = clock,
                                !.resp = "ok", !.note = "accepted",
                                !.xfer = [did |-> TRUE,
                                          sLen0 |-> Len(hp[sref].inventory),
                                          rLen0 |-> Len(hp[rref].inventory),
                                          pair0 |-> pair(hp),
                                          all0 |-> CountAll(hp, ud, o.instanceId),
                                          sLen1 |-> Len(hp2[sref].inventory),
                                          rLen1 |-> Len(hp2[rref].inventory),
                                          pair1 |-> pair(hp2),
                                          all1 |-> CountAll(hp2, ud, o.instanceId),
                                          card0 |-> cardId,
                                          card1 |-> CardIdOf(got),
                                          iid1 |-> got.instanceId]],
                   hp2, ud)

\* The trade buttons without the receiver check.
TradeButtonBodyUnchecked(h, r, hp, ud) ==
    LET o == offers[r.arg] IN
    IF r.kind = "trade_decline"
    THEN Leave(h, [r EXCEPT !.pc = "update", !.resp = "declined", !.note = "declined"],
               hp, ud)
    ELSE IF ud[o.sender] # 0
    THEN AcceptTransfer(h, r, hp, ud)
    ELSE Leave(h, [r EXCEPT !.pc = "load_user", !.target = o.sender, !.ret = "accept"],
               hp, ud)

\* trade_accept_ / trade_decline_: the receiver check, decline, or the
\* sender's session is fetched.
TradeButtonBody(h, r, hp, ud) ==
    LET o == offers[r.arg] IN
    IF r.user # o.receiver
    THEN Leave(h, Done(r, "notforyou"), hp, ud)
    ELSE IF r.kind = "trade_decline"
    THEN Leave(h, [r EXCEPT !.pc = "update", !.resp = "declined", !.note = "declined"],
               hp, ud)
    ELSE IF ud[o.sender] # 0
    THEN AcceptTransfer(h, r, hp, ud)
    ELSE Leave(h, [r EXCEPT !.pc = "load_user", !.target = o.sender, !.ret = "accept"],
               hp, ud)

\* The handler after its prelude `data = await getUserData(user.id)`.
Body(h, r, hp, ud) ==
    CASE r.kind = "inventory" -> Leave(h, Done(r, "ok"), hp, ud)
      [] r.kind = "draw" -> DrawBody(h, r, hp, ud)
      [] r.kind = "pack" -> PackBody(h, r, hp, ud)
      [] r.kind = "pick" -> PickBody(h, r, hp, ud)
      [] r.kind = "resolve" -> ResolveBody(h, r, hp, ud)
      [] r.kind = "trash" -> TrashBody(h, r, hp, ud)
      [] r.kind = "reset_me" -> ResetBody(h, r, hp, ud)
      [] r.kind = "trade" -> TradeBody(h, r, hp, ud)
      [] r.kind \in {"trade_accept", "trade_decline"} -> TradeButtonBody(h, r, hp, ud)

\* getUserData returns userData[userId] as it is at the return.
Return(h, r, hp, ud) ==
    LET back == [r EXCEPT !.target = "none", !.ret = "none", !.lu = NoUserRow] IN
    IF r.ret = "accept"
    THEN AcceptTransfer(h, back, hp, ud)
    ELSE Body(h, [back EXCEPT !.data = ud[r.user], !.pc = "body"], hp, ud)

----------------------------------------------------------------------------
(* getUserData on a cache miss: three awaited durable calls *)

Install(hp, session) == Append(hp, session)

\* A load whose exception reaches the handler.
FallbackRethrows(h, r) ==
    Leave(h, Done(r, "failed"), heap, userData)

\* The catch block: an empty session replaces whatever is cached.
Fallback(h, r) ==
    Return(h, r, Install(heap, EmptySession),
           [userData EXCEPT ![r.target] = Len(heap) + 1])

\* The outcomes of a durable call: it succeeds, it returns an error, or the
\* client raises.  A specification names the outcomes it admits.
Outcomes == {"ok", "error", "throw"}

\* await supabase.from('users').select('*').eq('user_id', userId).single():
\* an error leaves `user` undefined.
LoadUser(h, F) ==
    LET r == hs[h] IN
    /\ r.pc = "load_user"
    /\ \E out \in F :
        CASE out = "ok" ->
                Leave(h, [r EXCEPT !.pc = "load_inv", !.lu = dbUsers[r.target]],
                      heap, userData)
          [] out = "error" ->
                Leave(h, [r EXCEPT !.pc = "load_inv", !.lu = NoUserRow], heap, userData)
          [] out = "throw" -> Fallback(h, r)
    /\ UNCHANGED <<imageVars, cards, testMode, idPool, dbUsers, dbInv, clock, ticks>>

\* user?.last_draw || 0, and so on: the session object built from what the
\* two reads returned.
LoadedSession(user, inventory) ==
    Session(inventory, user.last_draw, user.last_pack, user.last_pick)

\* await supabase.from('inventory').select('*')...: an error leaves the
\* inventory empty.  The object is cached at once; a user that was not read
\* is then inserted (another await).
LoadInv(h, F) ==
    LET r == hs[h]
        installed(inv) ==
            LET hp == Install(heap, LoadedSession(r.lu, inv))
                ud == [userData EXCEPT ![r.target] = Len(heap) + 1]
            IN  IF r.lu.exists
                THEN Return(h, r, hp, ud)
                ELSE Leave(h, [r EXCEPT !.pc = "load_insert"], hp, ud)
    IN
    /\ r.pc = "load_inv"
    /\ \E out \in F :
        CASE out = "ok" -> installed(LoadedInventory(r.target))
          [] out = "error" -> installed(<<>>)
          [] out = "throw" -> Fallback(h, r)
    /\ UNCHANGED <<imageVars, cards, testMode, idPool, dbUsers, dbInv, clock, ticks>>

\* An upsert in place of the insert: it replaces a record that exists.
LoadInsertUpserts(h, F) ==
    LET r == hs[h] IN
    /\ r.pc = "load_insert"
    /\ \E out \in F :
        CASE out = "ok" ->
                /\ dbUsers' = [dbUsers EXCEPT ![r.target] = UserRow(0, 0, 0)]
                /\ Return(h, r, heap, userData)
          [] out = "error" ->
                /\ UNCHANGED dbUsers
                /\ Return(h, r, heap, userData)
          [] out = "throw" ->
                /\ UNCHANGED dbUsers
                /\ Fallback(h, r)
    /\ UNCHANGED <<imageVars, cards, testMode, idPool, dbInv, clock, ticks>>

\* await supabase.from('users').insert({user_id, last_draw: 0, ...}); its
\* result is not read.
LoadInsert(h, F) ==
    LET r == hs[h] IN
    /\ r.pc = "load_insert"
    /\ \E out \in F :
        CASE out = "ok" ->
                /\ dbUsers' = IF dbUsers[r.target].exists THEN dbUsers
                              ELSE [dbUsers EXCEPT ![r.target] = UserRow(0, 0, 0)]
                /\ Return(h, r, heap, userData)
          [] out = "error" ->
                /\ UNCHANGED dbUsers
                /\ Return(h, r, heap, userData)
          [] out = "throw" ->
                /\ UNCHANGED dbUsers
                /\ Fallback(h, r)
    /\ UNCHANGED <<imageVars, cards, testMode, idPool, dbInv, clock, ticks>>

----------------------------------------------------------------------------
(* Dispatch *)

Command(kind, via) == [kind |-> kind, via |-> via]

\* The values a user can give a command's options.
TrashIndexes == -1..2
PickSlots == 0..pickSize

ArgsOf(kind) ==
    CASE kind = "resolve" -> PickSlots
      [] kind = "trash" -> TrashIndexes
      [] kind \in {"trade_accept", "trade_decline"} ->
            {o \in 1..Len(offers) : offers[o].open}
      [] OTHER -> {0}

\* A dispatch whose getUserData reads the durable store whatever is cached.
StartReloads(h, c, u, a, p, id, m) ==
    LET r == [IdleHandler EXCEPT !.kind = c.kind, !.via = c.via, !.user = u,
                                 !.now = clock, !.arg = a, !.peer = p, !.iid = id,
                                 !.pc = "body"]
    IN
    /\ hs[h].pc = "idle"
    /\ \A g \in 1..(h - 1) : Started(g)
    /\ Cardinality({g \in Handlers : Running(g)}) < m
    /\ Leave(h, [r EXCEPT !.pc = "load_user", !.target = u, !.ret = "body"],
             heap, userData)
    /\ UNCHANGED <<imageVars, cards, testMode, idPool, dbUsers, dbInv, clock, ticks>>

\* A command or a button click arrives: `now` is read, and the prelude
\* `await getUserData(user.id)` is a hit (the handler runs on) or a miss.
\* Slots are taken in order, and at most m handlers are in progress.
Start(h, c, u, a, p, id, m) ==
    LET r == [IdleHandler EXCEPT !.kind = c.kind, !.via = c.via, !.user = u,
                                 !.now = clock, !.arg = a, !.peer = p, !.iid = id,
                                 !.pc = "body"]
    IN
    /\ hs[h].pc = "idle"
    /\ \A g \in 1..(h - 1) : Started(g)
    /\ Cardinality({g \in Handlers : Running(g)}) < m
    /\ IF userData[u] # 0
       THEN Body(h, [r EXCEPT !.data = userData[u]], heap, userData)
       ELSE Leave(h, [r EXCEPT !.pc = "load_user", !.target = u, !.ret = "body"],
                  heap, userData)
    /\ UNCHANGED <<imageVars, cards, testMode, idPool, dbUsers, dbInv, clock, ticks>>

Dispatch(K, U, n, m) ==
    \E h \in 1..n : \E c \in K : \E u \in U : \E a \in ArgsOf(c.kind) :
        \E p \in (IF c.kind = "trade" THEN U \cup Bots ELSE {"none"}) :
            \E id \in (IF c.kind = "trade" THEN InstanceIds ELSE {0}) :
                Start(h, c, u, a, p, id, m)

----------------------------------------------------------------------------
(* The awaited calls of the handlers *)

\* await message.reply('Drawing card...' / 'Opening pack...')
Loading(h) ==
    LET r == hs[h] IN
    /\ r.pc = "loading"
    /\ IF r.kind = "draw"
       THEN DrawPush(h, r, heap, userData)
       ELSE PackIter(h, r, heap, userData)
    /\ UNCHANGED <<imageVars, cards, testMode, idPool, dbUsers, dbInv, clock, ticks>>

InsertUser(r) ==
    IF r.kind = "trade_accept" THEN offers[r.arg].receiver ELSE r.user

\* What follows `await addCardToInventory(...)` in each handler.
AfterInsert(h, r, hp, ud) ==
    CASE r.kind = "draw" ->
            Leave(h, [r EXCEPT !.pc = "save", !.payload = CooldownPayload(hp[r.data])],
                  hp, ud)
      [] r.kind = "pack" -> PackIter(h, [r EXCEPT !.i = @ + 1], hp, ud)
      [] r.kind = "resolve" -> ResolveClear(h, r, hp, ud)
      [] r.kind = "trade_accept" -> Leave(h, [r EXCEPT !.pc = "update"], hp, ud)

\* An insert whose failure ends the handler with an error response.
addCardToInventoryStrict(h, F) ==
    LET r == hs[h] IN
    /\ r.pc = "insert"
    /\ \E out \in F :
        IF out = "ok"
        THEN /\ dbInv' = Append(dbInv, Row(InsertUser(r), r.card, r.at, r.iid))
             /\ AfterInsert(h, [r EXCEPT !.wr = @ + 1], heap, userData)
        ELSE /\ UNCHANGED dbInv
             /\ Leave(h, Done([r EXCEPT !.wr = @ + 1, !.failed = TRUE], "error"),
                      heap, userData)
    /\ UNCHANGED <<imageVars, cards, testMode, idPool, dbUsers, clock, ticks>>

\* addCardToInventory: the insert, whose error or exception is logged only.
addCardToInventory(h, F) ==
    LET r == hs[h] IN
    /\ r.pc = "insert"
    /\ \E out \in F :
        IF out = "ok"
        THEN /\ dbInv' = Append(dbInv, Row(InsertUser(r), r.card, r.at, r.iid))
             /\ AfterInsert(h, [r EXCEPT !.wr = @ + 1], heap, userData)
        ELSE /\ UNCHANGED dbInv
             /\ AfterInsert(h, [r EXCEPT !.wr = @ + 1, !.failed = TRUE], heap, userData)
    /\ UNCHANGED <<imageVars, cards, testMode, idPool, dbUsers, clock, ticks>>

\* saveUserCooldowns: the upsert of the three timestamps, as they were when
\* the call was made; an exception is logged only.
saveUserCooldowns(h, F) ==
    LET r == hs[h]
        r2 == IF r.kind = "pick" THEN [r EXCEPT !.pc = "compose"] ELSE Done(r, "ok")
    IN
    /\ r.pc = "save"
    /\ \E out \in F :
        dbUsers' = IF out = "ok" THEN [dbUsers EXCEPT ![r.user] = r.payload] ELSE dbUsers
    /\ Leave(h, r2, heap, userData)
    /\ UNCHANGED <<imageVars, cards, testMode, idPool, dbInv, clock, ticks>>

\* await combineCardImages(...): the buffer or null.  The slash handler then
\* reads `content`, which it never declares.
Compose(h, F) ==
    LET r == hs[h] IN
    /\ r.pc = "compose"
    /\ \E out \in F :
        IF out = "ok"
        THEN Leave(h, Done(r, IF r.via = "text" THEN "ok" ELSE "threw"), heap, userData)
        ELSE Leave(h, Done(r, "imagefail"), heap, userData)
    /\ UNCHANGED <<imageVars, cards, testMode, idPool, dbUsers, dbInv, clock, ticks>>

\* delete ... limit(1): the first row the filter matches, if any.
DeleteFirst(rows, match(_)) ==
    IF \E i \in 1..Len(rows) : match(rows[i])
    THEN Splice(rows, CHOOSE i \in 1..Len(rows) :
                        /\ match(rows[i])
                        /\ \A j \in 1..(i - 1) : ~match(rows[j]))
    ELSE rows

\* /trash: delete matched on (user_id, card_id, obtained_at), read from the
\* camel-case fields of the removed entry.
TrashDelete(h, F) ==
    LET r == hs[h]
        match(row) == /\ r.shape \in {"camel", "both"}
                      /\ row.user_id = r.user
                      /\ row.card_id = r.card
                      /\ row.obtained_at = r.at
    IN
    /\ r.pc = "trash_delete"
    /\ \E out \in F :
        dbInv' = IF out = "ok" THEN DeleteFirst(dbInv, match) ELSE dbInv
    /\ Leave(h, Done([r EXCEPT !.wr = @ + 1], "ok"), heap, userData)
    /\ UNCHANGED <<imageVars, cards, testMode, idPool, dbUsers, clock, ticks>>

\* /reset_me: delete every inventory row of the user
ResetDelete(h, F) ==
    LET r == hs[h] IN
    /\ r.pc = "reset_delete"
    /\ \E out \in F :
        dbInv' = IF out = "ok" THEN SelectSeq(dbInv, LAMBDA row : row.user_id # r.user)
                 ELSE dbInv
    /\ Leave(h, [r EXCEPT !.pc = "reset_upsert", !.wr = @ + 1], heap, userData)
    /\ UNCHANGED <<imageVars, cards, testMode, idPool, dbUsers, clock, ticks>>

\* /reset_me: upsert of the user with new Date(0).toISOString() timestamps
ResetUpsert(h, F) ==
    LET r == hs[h] IN
    /\ r.pc = "reset_upsert"
    /\ \E out \in F :
        dbUsers' = IF out = "ok"
                   THEN [dbUsers EXCEPT ![r.user] = UserRow(IsoEpoch, IsoEpoch, IsoEpoch)]
                   ELSE dbUsers
    /\ Leave(h, Done(r, "ok"), heap, userData)
    /\ UNCHANGED <<imageVars, cards, testMode, idPool, dbInv, clock, ticks>>

\* /trade: the reply that carries the Accept and Decline buttons
PostOffer(h) ==
    LET r == hs[h] IN
    /\ r.pc = "post"
    /\ LeaveWith(h, Done(r, "ok"), heap, userData,
                 Append(offers, [sender |-> r.user, receiver |-> r.peer,
                                 instanceId |-> r.iid, open |-> TRUE,
                                 outcomes |-> <<>>]))
    /\ UNCHANGED <<imageVars, cards, testMode, idPool, dbUsers, dbInv, clock, ticks>>

\* trade_accept: delete of the sender's row matched on (user_id, instance_id)
TradeDelete(h, F) ==
    LET r == hs[h]
        match(row) == /\ row.user_id = offers[r.arg].sender
                      /\ row.instance_id = r.iid
    IN
    /\ r.pc = "trade_delete"
    /\ \E out \in F :
        dbInv' = IF out = "ok" THEN DeleteFirst(dbInv, match) ELSE dbInv
    /\ Leave(h, [r EXCEPT !.pc = "insert", !.wr = @ + 1], heap, userData)
    /\ UNCHANGED <<imageVars, cards, testMode, idPool, dbUsers, clock, ticks>>

\* interaction.update({content, components: []}): the buttons are removed
Update(h) ==
    LET r == hs[h] IN
    /\ r.pc = "update"
    /\ LeaveWith(h, Done(r, r.resp), heap, userData,
                 [offers EXCEPT ![r.arg].open = FALSE])
    /\ UNCHANGED <<imageVars, cards, testMode, idPool, dbUsers, dbInv, clock, ticks>>

\* Time passes.
Tick(D) ==
    /\ ticks < MaxTicks
    /\ \E d \in D : clock' = clock + d
    /\ ticks' = ticks + 1
    /\ fin' = NoFin
    /\ UNCHANGED <<imageVars, cards, testMode, idPool, userData, heap, dbUsers, dbInv, offers, hs>>

----------------------------------------------------------------------------
(* Image composition *)

ImageUrls == {"c1.png", "c2.png"}
Calls == 1..MaxHandlers

NoImage == [of |-> "none"]
Pending == [of |-> "pending"]
Failed == [of |-> "failed"]

\* What loadImage makes of the bytes axios.get(url) returned.
Image(url) == [of |-> url]

\* A cache key that forgets the order of the URLs.
CacheKeyUnordered(urls) ==
    LET n(u) == Cardinality({k \in 1..3 : urls[k] = u})
    IN  ToString(n("c1.png")) \o "|" \o ToString(n("c2.png"))

\* `${card1Url}|${card2Url}|${card3Url}`
CacheKey(urls) == urls[1] \o "|" \o urls[2] \o "|" \o urls[3]

\* The locals of a call: urls (the three arguments), slots (what each
\* fetchAndCacheImage(url) of the Promise.all has come to), and, recorded for
\* the properties, fetched (axios.get requests the call issued).
IdleCall == [pc |-> "idle", urls |-> <<>>, slots |-> <<>>, fetched |-> 0]
RetiredCall == [IdleCall EXCEPT !.pc = "done"]
Null == <<>>
NoRet == [urls |-> <<>>, result |-> Null, fetched |-> 0, rendered |-> FALSE, hit |-> FALSE]

PendingSlots(c) == {k \in 1..3 : c.slots[k] = Pending}

\* The canvas is drawn from the three images, left to right, encoded, stored
\* under the key and returned.
Render(c, r) ==
    /\ combinedImageCache' = (CacheKey(r.urls) :> r.slots) @@ combinedImageCache
    /\ calls' = [calls EXCEPT ![c] = RetiredCall]
    /\ ret' = [urls |-> r.urls, result |-> r.slots, fetched |-> r.fetched,
               rendered |-> TRUE, hit |-> FALSE]

\* A catch that stores what the call had fetched so far before returning null.
CatchStoresPartial(c, r) ==
    /\ combinedImageCache' = (CacheKey(r.urls) :> r.slots) @@ combinedImageCache
    /\ calls' = [calls EXCEPT ![c] = IF PendingSlots(r) = {} THEN RetiredCall
                                      ELSE [r EXCEPT !.pc = "orphan"]]
    /\ ret' = [urls |-> r.urls, result |-> Null, fetched |-> r.fetched,
               rendered |-> FALSE, hit |-> FALSE]

\* catch (error): logged, `return null`.  The fetches of the Promise.all
\* that are still in flight go on by themselves.
Catch(c, r) ==
    /\ UNCHANGED combinedImageCache
    /\ calls' = [calls EXCEPT ![c] = IF PendingSlots(r) = {} THEN RetiredCall
                                      ELSE [r EXCEPT !.pc = "orphan"]]
    /\ ret' = [urls |-> r.urls, result |-> Null, fetched |-> r.fetched,
               rendered |-> FALSE, hit |-> FALSE]

\* combineCardImages(card1Url, card2Url, card3Url) up to its first await
\* that waits: a composite hit returns the stored buffer; otherwise each
\* fetchAndCacheImage takes its image from imageCache or issues a request.
\* Calls take their slots in order, at most m having requests in flight.
combineCardImages(c, urls, m) ==
    LET key == CacheKey(urls)
        slots == [k \in 1..3 |-> IF imageCache[urls[k]] # NoImage
                                  THEN imageCache[urls[k]] ELSE Pending]
        r == [pc |-> "fetching", urls |-> urls, slots |-> slots,
              fetched |-> Cardinality({k \in 1..3 : slots[k] = Pending})]
    IN
    /\ calls[c].pc = "idle"
    /\ \A g \in 1..(c - 1) : calls[g].pc # "idle"
    /\ Cardinality({g \in Calls : calls[g].pc \in {"fetching", "orphan"}}) < m
    /\ IF key \in DOMAIN combinedImageCache
       THEN /\ ret' = [urls |-> urls, result |-> combinedImageCache[key], fetched |-> 0,
                       rendered |-> FALSE, hit |-> TRUE]
            /\ calls' = [calls EXCEPT ![c] = RetiredCall]
            /\ UNCHANGED combinedImageCache
       ELSE IF PendingSlots(r) = {}
       THEN Render(c, r)
       ELSE /\ calls' = [calls EXCEPT ![c] = r]
            /\ ret' = NoRet
            /\ UNCHANGED combinedImageCache
    /\ UNCHANGED imageCache
    /\ UNCHANGED <<cards, testMode, idPool, userData, heap, dbUsers, dbInv, clock, ticks,
                   offers, hs, fin>>

\* One fetchAndCacheImage(url) of a call comes back: axios.get and loadImage
\* gave an image, which is stored in imageCache, or one of them threw.  The
\* Promise.all resolves with the last image and rejects with the first
\* failure.
fetchAndCacheImage(c, k, F) ==
    LET r == calls[c] IN
    /\ r.pc \in {"fetching", "orphan"}
    /\ k \in PendingSlots(r)
    /\ \E out \in F :
        IF out = "ok"
        THEN LET r2 == [r EXCEPT !.slots[k] = Image(r.urls[k])] IN
             /\ imageCache' = [imageCache EXCEPT ![r.urls[k]] = Image(r.urls[k])]
             /\ IF PendingSlots(r2) = {} /\ r.pc = "fetching"
                THEN Render(c, r2)
                ELSE /\ calls' = [calls EXCEPT ![c] = IF PendingSlots(r2) = {}
                                                      THEN RetiredCall ELSE r2]
                     /\ ret' = NoRet
                     /\ UNCHANGED combinedImageCache
        ELSE LET r2 == [r EXCEPT !.slots[k] = Failed] IN
             /\ UNCHANGED imageCache
             /\ IF r.pc = "fetching"
                THEN Catch(c, r2)
                ELSE /\ calls' = [calls EXCEPT ![c] = IF PendingSlots(r2) = {}
                                                      THEN RetiredCall ELSE r2]
                     /\ ret' = NoRet
                     /\ UNCHANGED combinedImageCache
    /\ UNCHANGED <<cards, testMode, idPool, userData, heap, dbUsers, dbInv, clock, ticks,
                   offers, hs, fin>>

\* Startup: with PRELOAD_IMAGES every card image is in imageCache.
InitImages(preloaded) ==
    /\ imageCache = [u \in ImageUrls |-> IF preloaded THEN Image(u) ELSE NoImage]
    /\ combinedImageCache = <<>>
    /\ calls = [c \in Calls |-> IdleCall]
    /\ ret = NoRet

----------------------------------------------------------------------------
(* Specifications *)

\* The process has just started: nothing is cached, no handler runs.  The
\* durable store holds user A, who drew card c1 this very millisecond, and
\* no record of the other users.  Trade messages posted before the process
\* started are still on the platform, and their buttons reach this process.
InitSessions(catalog, mode, posted, pool) ==
    /\ cards = catalog
    /\ testMode = mode
    /\ idPool = pool
    /\ userData = [u \in Users |-> 0]
    /\ heap = <<>>
    /\ dbUsers = [u \in Users |->
                    IF u = "A" THEN UserRow(StartClock, 0, 0) ELSE NoUserRow]
    /\ dbInv = <<Row("A", "c1", StartClock, 1)>>
    /\ clock = StartClock
    /\ ticks = 0
    /\ offers = posted
    /\ hs = [h \in Handlers |-> IdleHandler]
    /\ fin = NoFin

InitWith(catalog, mode, posted, pool) ==
    InitSessions(catalog, mode, posted, pool) /\ InitImages(FALSE)

Catalog == <<"c1", "c2">>

AllCommands ==
    {Command("inventory", "slash"),
     Command("draw", "slash"), Command("draw", "button"), Command("draw", "text"),
     Command("pack", "slash"), Command("pack", "button"), Command("pack", "text"),
     Command("pick", "slash"), Command("pick", "text"),
     Command("resolve", "button"), Command("trash", "slash"),
     Command("reset_me", "slash"), Command("trade", "slash"),
     Command("trade_accept", "button"), Command("trade_decline", "button")}

\* A proposes instance 1 to B.
Posted ==
    <<[sender |-> "A", receiver |-> "B", instanceId |-> 1, open |-> TRUE,
       outcomes |-> <<>>]>>

Ok == {"ok"}
OkOrError == {"ok", "error"}

\* Trades between A and B, while either may also list its inventory.
\* Durable reads succeed; durable writes succeed or return an error.
TradeCommands ==
    {Command("inventory", "slash"), Command("trade", "slash"),
     Command("trade_accept", "button"), Command("trade_decline", "button")}

NextTrade ==
    \/ Dispatch(TradeCommands, {"A", "B"}, MaxHandlers, MaxRunning)
    \/ \E h \in Handlers : LoadUser(h, Ok)
    \/ \E h \in Handlers : LoadInv(h, Ok)
    \/ \E h \in Handlers : LoadInsert(h, OkOrError)
    \/ \E h \in Handlers : PostOffer(h)
    \/ \E h \in Handlers : TradeDelete(h, OkOrError)
    \/ \E h \in Handlers : addCardToInventory(h, OkOrError)
    \/ \E h \in Handlers : Update(h)

SpecTrade == InitWith(<<"c1">>, FALSE, Posted, InstanceIds) /\ [][NextTrade]_vars

\* Clicks on the buttons of A's offer to B by anyone, two handlers.
AuthCommands ==
    {Command("inventory", "slash"),
     Command("trade_accept", "button"), Command("trade_decline", "button")}

NextAuth ==
    \/ Dispatch(AuthCommands, Users, MaxHandlers - 1, MaxRunning)
    \/ \E h \in Handlers : LoadUser(h, Ok)
    \/ \E h \in Handlers : LoadInv(h, Ok)
    \/ \E h \in Handlers : LoadInsert(h, OkOrError)
    \/ \E h \in Handlers : TradeDelete(h, OkOrError)
    \/ \E h \in Handlers : addCardToInventory(h, OkOrError)
    \/ \E h \in Handlers : Update(h)

SpecAuth == InitWith(<<"c1">>, FALSE, Posted, InstanceIds) /\ [][NextAuth]_vars

\* The session cache under loads that may fail, /trash and /reset_me.
CacheCommands ==
    {Command("inventory", "slash"), Command("trash", "slash"),
     Command("reset_me", "slash")}

NextCache ==
    \/ Dispatch(CacheCommands, {"A", "B"}, MaxHandlers, MaxRunning)
    \/ \E h \in Handlers : LoadUser(h, Outcomes)
    \/ \E h \in Handlers : LoadInv(h, Outcomes)
    \/ \E h \in Handlers : LoadInsert(h, Outcomes)
    \/ \E h \in Handlers : TrashDelete(h, OkOrError)
    \/ \E h \in Handlers : ResetDelete(h, OkOrError)
    \/ \E h \in Handlers : ResetUpsert(h, OkOrError)

SpecCache == InitWith(<<"c1">>, FALSE, <<>>, InstanceIds) /\ [][NextCache]_vars

\* The three gated actions at their eight entry points, as time passes, with
\* a catalog of one card or none.
GateCommands ==
    {Command("draw", "slash"), Command("draw", "button"), Command("draw", "text"),
     Command("pack", "slash"), Command("pack", "button"), Command("pack", "text"),
     Command("pick", "slash"), Command("pick", "text")}

NextGate ==
    \/ Dispatch(GateCommands, {"A"}, MaxHandlers - 1, MaxRunning - 1)
    \/ \E h \in Handlers : LoadUser(h, Ok)
    \/ \E h \in Handlers : LoadInv(h, Ok)
    \/ \E h \in Handlers : Loading(h)
    \/ \E h \in Handlers : addCardToInventory(h, Ok)
    \/ \E h \in Handlers : saveUserCooldowns(h, Ok)
    \/ \E h \in Handlers : Compose(h, Ok)
    \/ Tick(ClockSteps)

SpecGate ==
    /\ \E catalog \in {<<>>, <<"c1">>} : InitWith(catalog, FALSE, <<>>, {NumIds})
    /\ [][NextGate]_vars

\* Pick sessions and their resolution.
PickCommands ==
    {Command("pick", "slash"), Command("pick", "text"), Command("resolve", "button")}

NextPick ==
    \/ Dispatch(PickCommands, {"A"}, MaxHandlers, MaxRunning)
    \/ \E h \in Handlers : LoadUser(h, Ok)
    \/ \E h \in Handlers : LoadInv(h, Ok)
    \/ \E h \in Handlers : saveUserCooldowns(h, OkOrError)
    \/ \E h \in Handlers : Compose(h, OkOrError)
    \/ \E h \in Handlers : addCardToInventory(h, OkOrError)

SpecPick == InitWith(Catalog, FALSE, <<>>, InstanceIds) /\ [][NextPick]_vars

\* The handlers that add a card, with durable writes that may fail.
WriteCommands ==
    {Command("draw", "slash"), Command("pack", "slash"), Command("pick", "text"),
     Command("resolve", "button"), Command("trade_accept", "button")}

NextWrite ==
    \/ Dispatch(WriteCommands, {"A", "B"}, MaxHandlers - 1, MaxRunning - 1)
    \/ \E h \in Handlers : LoadUser(h, Ok)
    \/ \E h \in Handlers : LoadInv(h, Ok)
    \/ \E h \in Handlers : LoadInsert(h, OkOrError)
    \/ \E h \in Handlers : addCardToInventory(h, OkOrError)
    \/ \E h \in Handlers : saveUserCooldowns(h, OkOrError)
    \/ \E h \in Handlers : Compose(h, Ok)
    \/ \E h \in Handlers : TradeDelete(h, OkOrError)
    \/ \E h \in Handlers : Update(h)

SpecWrite == InitWith(<<"c1">>, TRUE, Posted, {NumIds}) /\ [][NextWrite]_vars

\* B, a new user, adds cards by /draw, /pack and a pick while another of its
\* commands may still be loading its session.
RoundCommands ==
    {Command("inventory", "slash"), Command("draw", "slash"), Command("pack", "slash"),
     Command("pick", "text"), Command("resolve", "button")}

NextRound ==
    \/ Dispatch(RoundCommands, {"B"}, MaxHandlers - 1, MaxRunning)
    \/ \E h \in Handlers : LoadUser(h, Ok)
    \/ \E h \in Handlers : LoadInv(h, Ok)
    \/ \E h \in Handlers : LoadInsert(h, Ok)
    \/ \E h \in Handlers : addCardToInventory(h, OkOrError)
    \/ \E h \in Handlers : saveUserCooldowns(h, Ok)
    \/ \E h \in Handlers : Compose(h, Ok)

SpecRound == InitWith(<<"c1">>, FALSE, <<>>, {NumIds}) /\ [][NextRound]_vars

\* Sessions loaded for /inventory, with durable calls that succeed, return
\* an error or raise.
LoadCommands == {Command("inventory", "slash")}

NextLoad ==
    \/ Dispatch(LoadCommands, {"A", "B"}, MaxHandlers, MaxRunning)
    \/ \E h \in Handlers : LoadUser(h, Outcomes)
    \/ \E h \in Handlers : LoadInv(h, Outcomes)
    \/ \E h \in Handlers : LoadInsert(h, Outcomes)

SpecLoad == InitWith(<<"c1">>, FALSE, <<>>, InstanceIds) /\ [][NextLoad]_vars

\* /draw, /pack and /trash one after the other, with cooldowns of 0.
CountCommands ==
    {Command("draw", "slash"), Command("pack", "slash"), Command("trash", "slash")}

NextCount ==
    \/ Dispatch(CountCommands, {"A", "B"}, MaxHandlers, MaxRunning - 1)
    \/ \E h \in Handlers : LoadUser(h, Ok)
    \/ \E h \in Handlers : LoadInv(h, Ok)
    \/ \E h \in Handlers : LoadInsert(h, Ok)
    \/ \E h \in Handlers : addCardToInventory(h, OkOrError)
    \/ \E h \in Handlers : saveUserCooldowns(h, Ok)
    \/ \E h \in Handlers : TrashDelete(h, OkOrError)
    \/ Tick({1})

SpecCount == InitWith(<<"c1">>, TRUE, <<>>, {NumIds}) /\ [][NextCount]_vars

\* The gated commands at instants within a second of a timestamp and of
\* the end of its cooldown.
WaitSteps ==
    {1, 999, 1000, 10 * 60 * 1000 - 1000, 15 * 60 * 1000 - 1000, 30 * 60 * 1000 - 1}

NextWait ==
    \/ Dispatch(GateCommands, {"A"}, MaxHandlers - 1, MaxRunning - 1)
    \/ \E h \in Handlers : LoadUser(h, Ok)
    \/ \E h \in Handlers : LoadInv(h, Ok)
    \/ \E h \in Handlers : Loading(h)
    \/ \E h \in Handlers : addCardToInventory(h, Ok)
    \/ \E h \in Handlers : saveUserCooldowns(h, Ok)
    \/ \E h \in Handlers : Compose(h, Ok)
    \/ Tick(WaitSteps)

SpecWait == InitWith(<<"c1">>, FALSE, <<>>, {NumIds}) /\ [][NextWait]_vars

\* Compositions of the images of a two-card catalog, each request
\* succeeding or failing.
NextImage ==
    \/ \E c \in Calls : \E urls \in [1..3 -> ImageUrls] :
            combineCardImages(c, urls, MaxRunning)
    \/ \E c \in Calls : \E k \in 1..3 : fetchAndCacheImage(c, k, OkOrError)

SpecImage ==
    /\ InitSessions(Catalog, FALSE, <<>>, InstanceIds)
    /\ \E preloaded \in BOOLEAN : InitImages(preloaded)
    /\ [][NextImage]_vars

\* A new user's commands, two at a time, with real cooldowns: after a first
\* command has cached the session, packs and text draws overlap.
RaceCommands ==
    {Command("inventory", "slash"), Command("pack", "slash"), Command("draw", "text")}

NextRace ==
    \/ Dispatch(RaceCommands, {"B"}, MaxHandlers, MaxRunning)
    \/ \E h \in Handlers : LoadUser(h, Ok)
    \/ \E h \in Handlers : LoadInv(h, Ok)
    \/ \E h \in Handlers : LoadInsert(h, Ok)
    \/ \E h \in Handlers : Loading(h)
    \/ \E h \in Handlers : addCardToInventory(h, Ok)
    \/ \E h \in Handlers : saveUserCooldowns(h, Ok)

SpecRace == InitWith(<<"c1">>, FALSE, <<>>, {NumIds}) /\ [][NextRace]_vars

\* Draws and /trash with a durable store that never fails.
TrashCommands ==
    {Command("draw", "slash"), Command("draw", "text"), Command("trash", "slash")}

NextTrash ==
    \/ Dispatch(TrashCommands, {"A", "B"}, MaxHandlers, MaxRunning - 1)
    \/ \E h \in Handlers : LoadUser(h, Ok)
    \/ \E h \in Handlers : LoadInv(h, Ok)
    \/ \E h \in Handlers : LoadInsert(h, Ok)
    \/ \E h \in Handlers : Loading(h)
    \/ \E h \in Handlers : addCardToInventory(h, Ok)
    \/ \E h \in Handlers : saveUserCooldowns(h, Ok)
    \/ \E h \in Handlers : TrashDelete(h, Ok)
    \/ Tick({1})

SpecTrash == InitWith(<<"c1">>, TRUE, <<>>, InstanceIds) /\ [][NextTrash]_vars

\* The trade commands with a durable store that never fails.
NextDeal ==
    \/ Dispatch(TradeCommands, {"A", "B"}, MaxHandlers, MaxRunning)
    \/ \E h \in Handlers : LoadUser(h, Ok)
    \/ \E h \in Handlers : LoadInv(h, Ok)
    \/ \E h \in Handlers : LoadInsert(h, Ok)
    \/ \E h \in Handlers : PostOffer(h)
    \/ \E h \in Handlers : TradeDelete(h, Ok)
    \/ \E h \in Handlers : addCardToInventory(h, Ok)
    \/ \E h \in Handlers : Update(h)

SpecDeal == InitWith(Catalog, FALSE, Posted, InstanceIds) /\ [][NextDeal]_vars

\* Overlapping draws of one user while time passes.
OrderCommands == {Command("draw", "slash"), Command("draw", "text")}

NextOrder ==
    \/ Dispatch(OrderCommands, {"B"}, MaxHandlers, MaxRunning)
    \/ \E h \in Handlers : LoadUser(h, Ok)
    \/ \E h \in Handlers : LoadInv(h, Ok)
    \/ \E h \in Handlers : LoadInsert(h, Ok)
    \/ \E h \in Handlers : Loading(h)
    \/ \E h \in Handlers : addCardToInventory(h, Ok)
    \/ \E h \in Handlers : saveUserCooldowns(h, Ok)
    \/ Tick({1})

SpecOrder == InitWith(<<"c1">>, TRUE, <<>>, InstanceIds) /\ [][NextOrder]_vars

\* Pick starts that follow one another with no cooldown to wait for, their
\* images failing or not, and pick buttons.
NextChoose ==
    \/ Dispatch(PickCommands, {"A"}, MaxHandlers, MaxRunning)
    \/ \E h \in Handlers : LoadUser(h, Ok)
    \/ \E h \in Handlers : LoadInv(h, Ok)
    \/ \E h \in Handlers : saveUserCooldowns(h, Ok)
    \/ \E h \in Handlers : Compose(h, OkOrError)
    \/ \E h \in Handlers : addCardToInventory(h, Ok)

SpecChoose == InitWith(Catalog, TRUE, <<>>, {NumIds}) /\ [][NextChoose]_vars

\* Draws and trades with a durable store that never fails.
AgreeCommands ==
    {Command("draw", "slash"), Command("trade", "slash"),
     Command("trade_accept", "button")}

NextAgree ==
    \/ Dispatch(AgreeCommands, {"A", "B"}, MaxHandlers, MaxRunning)
    \/ \E h \in Handlers : LoadUser(h, Ok)
    \/ \E h \in Handlers : LoadInv(h, Ok)
    \/ \E h \in Handlers : LoadInsert(h, Ok)
    \/ \E h \in Handlers : PostOffer(h)
    \/ \E h \in Handlers : TradeDelete(h, Ok)
    \/ \E h \in Handlers : addCardToInventory(h, Ok)
    \/ \E h \in Handlers : saveUserCooldowns(h, Ok)
    \/ \E h \in Handlers : Update(h)

SpecAgree == InitWith(<<"c1">>, FALSE, <<>>, {NumIds}) /\ [][NextAgree]_vars

\* A proposed instance 1 to B and to C; the two receivers click Accept.
PostedTwice ==
    <<[sender |-> "A", receiver |-> "B", instanceId |-> 1, open |-> TRUE,
       outcomes |-> <<>>],
      [sender |-> "A", receiver |-> "C", instanceId |-> 1, open |-> TRUE,
       outcomes |-> <<>>]>>

NextOffers ==
    \/ Dispatch({Command("trade_accept", "button")}, {"B", "C"}, MaxHandlers, MaxRunning)
    \/ \E h \in Handlers : LoadUser(h, Ok)
    \/ \E h \in Handlers : LoadInv(h, Ok)
    \/ \E h \in Handlers : LoadInsert(h, Ok)
    \/ \E h \in Handlers : TradeDelete(h, Ok)
    \/ \E h \in Handlers : addCardToInventory(h, Ok)
    \/ \E h \in Handlers : Update(h)

SpecOffers == InitWith(<<"c1">>, FALSE, PostedTwice, InstanceIds) /\ [][NextOffers]_vars

\* /reset_me while draws of the same user are in progress; the durable store
\* never fails.
ResetCommands == {Command("draw", "slash"), Command("reset_me", "slash")}

NextReset ==
    \/ Dispatch(ResetCommands, {"B"}, MaxHandlers, MaxRunning)
    \/ \E h \in Handlers : LoadUser(h, Ok)
    \/ \E h \in Handlers : LoadInv(h, Ok)
    \/ \E h \in Handlers : LoadInsert(h, Ok)
    \/ \E h \in Handlers : addCardToInventory(h, Ok)
    \/ \E h \in Handlers : saveUserCooldowns(h, Ok)
    \/ \E h \in Handlers : ResetDelete(h, Ok)
    \/ \E h \in Handlers : ResetUpsert(h, Ok)
    \/ Tick({1})

SpecReset == InitWith(<<"c1">>, TRUE, <<>>, {NumIds}) /\ [][NextReset]_vars

----------------------------------------------------------------------------
(* Properties *)

\* The inventory getOrLoad(u) gives: the cached one, or the durable rows.
InventoryOf(u) ==
    IF userData[u] = 0 THEN LoadedInventory(u) ELSE heap[userData[u]].inventory

\* No session object has its inventory changed by the step.
InventoriesKept ==
    \A i \in 1..Len(heap) : heap'[i] = Collected \/ heap'[i].inventory = heap[i].inventory

\* No session object is changed by the step.
ObjectsKept ==
    \A i \in 1..Len(heap) : heap'[i] = Collected \/ heap'[i] = heap[i]

Resolutions(o) == SelectSeq(offers[o].outcomes, LAMBDA x : x \in {"accepted", "declined"})

TradeButtons == {"trade_accept", "trade_decline"}

\* The handler in slot h takes the step; Stepper(h) is the user it acts for.
Steps(h) == hs'[h] # hs[h]

Stepper(h) ==
    IF hs[h].pc # "idle" THEN hs[h].user
    ELSE IF hs'[h].pc = "done" THEN fin'.user ELSE hs'[h].user

\* C1: a traded instance id is borne by exactly one inventory entry over all
\* cached sessions, right before the transfer, right after it, and in every
\* state from then on; the trade neither duplicates nor drops the instance.
\* (No command of SpecTrade removes or creates an instance.)
C1_OwnershipInvariant ==
    /\ \A h \in Handlers :
            hs[h].xfer.did => hs[h].xfer.all0 = 1 /\ hs[h].xfer.all1 = 1
    /\ \A o \in 1..Len(offers) :
            "accepted" \in Range(offers[o].outcomes)
                => CountAll(heap, userData, offers[o].instanceId) = 1

\* C2: a successful accept shortens the sender's inventory by one, lengthens
\* the receiver's by one, appends an entry with the instance id and card id
\* of the removed one, and the two sessions hold the instance once before
\* and once after.
C2_TradeConservation ==
    \A h \in Handlers :
        LET x == hs[h].xfer IN
        x.did =>
            /\ x.sLen1 = x.sLen0 - 1
            /\ x.rLen1 = x.rLen0 + 1
            /\ x.card1 = x.card0
            /\ x.iid1 = offers[hs[h].arg].instanceId
            /\ x.pair0 = 1
            /\ x.pair1 = 1

\* C3: the session a running handler got from getOrLoad is the one getOrLoad
\* returns for that user now: all calls for a user return one object.
C3_SingleInstance ==
    \A h \in Handlers :
        Running(h) /\ hs[h].data # 0 => hs[h].data = userData[hs[h].user]

CooldownOf(kind) ==
    CASE kind = "draw" -> DRAW_COOLDOWN
      [] kind = "pack" -> PACK_COOLDOWN
      [] kind = "pick" -> PICK_COOLDOWN

GateAgrees(kind, gate, now, last) ==
    /\ gate = "denied" <=> now - last < CooldownOf(kind)
    /\ gate = "passed" <=> now - last >= CooldownOf(kind)

\* C4: at each entry point of draw, pack and pick, a handler that consults
\* the gate is denied iff now - last < cooldown and passes iff
\* now - last >= cooldown, last being the timestamp read at the check.  The
\* only handlers that answer without consulting it are /draw and /pack on an
\* empty catalog.
C4_CooldownGate ==
    /\ \A h \in Handlers :
            hs[h].gate # "none" =>
                GateAgrees(hs[h].kind, hs[h].gate, hs[h].now, hs[h].last)
    /\ fin.kind \in {"draw", "pack", "pick"} =>
            IF fin.gate = "none"
            THEN fin.via = "slash" /\ fin.kind # "pick" /\ Len(cards) = 0
            ELSE GateAgrees(fin.kind, fin.gate, fin.now, fin.last)

\* A draw was granted exactly one cooldown after the previous one.
C4_Witness ==
    /\ fin.kind = "draw"
    /\ fin.gate = "passed"
    /\ fin.resp = "ok"
    /\ fin.now - fin.last = 15 * 60 * 1000

\* C5: of the resolves of one pick session exactly one adds a card: the
\* inventory gains one entry per session, however the resolves interleave.
C5_PickExhaustion ==
    \A i \in 1..Len(heap) : heap[i].gained <= 1

\* A step of a trade-button handler whose user is not the offer's receiver.
NonReceiverStep(h) ==
    /\ Steps(h)
    /\ \/ /\ hs[h].kind \in TradeButtons
          /\ hs[h].user # offers[hs[h].arg].receiver
       \/ /\ hs[h].pc = "idle"
          /\ hs'[h].kind \in TradeButtons
          /\ hs'[h].user # offers[hs'[h].arg].receiver
       \/ /\ hs[h].pc = "idle"
          /\ hs'[h].pc = "done"
          /\ fin'.resp = "notforyou"

\* C6 (amended): a click by anyone but the receiver is rejected; it changes
\* no session object, no inventory row, no offer, and no other user's cache
\* entry or users row.  The clicker's own session is fetched first: a miss
\* installs a cache entry for the clicker and creates its users row if absent.
C6_AuthorizationAmended ==
    [][\A h \in Handlers :
          NonReceiverStep(h) =>
              /\ dbInv' = dbInv
              /\ offers' = offers
              /\ ObjectsKept
              /\ \A u \in Users \ {Stepper(h)} :
                    userData'[u] = userData[u] /\ dbUsers'[u] = dbUsers[u]
              /\ dbUsers'[Stepper(h)] \in {dbUsers[Stepper(h)], UserRow(0, 0, 0)}
              /\ hs'[h].pc = "done" => fin'.resp = "notforyou"]_vars

\* C rejected at A's offer to B, now cached and with a users row.
C6_Witness ==
    /\ fin.resp = "notforyou"
    /\ fin.user = "C"
    /\ userData["C"] # 0
    /\ dbUsers["C"].exists

\* C6: a click by anyone but the receiver is rejected and nothing changes: no
\* session, no entry of the session cache, no durable row.
C6_Authorization ==
    [][\A h \in Handlers :
          NonReceiverStep(h) =>
              /\ dbInv' = dbInv
              /\ dbUsers' = dbUsers
              /\ offers' = offers
              /\ userData' = userData
              /\ heap' = heap
              /\ hs'[h].pc = "done" => fin'.resp = "notforyou"]_vars

C8_TerminalInOneStep ==
    \A o \in 1..Len(offers) : Len(Resolutions(o)) <= 1

\* A step of the handler of a Decline click by the offer's receiver.
DeclineStep(h) ==
    /\ Steps(h)
    /\ \/ /\ hs[h].kind = "trade_decline"
          /\ hs[h].user = offers[hs[h].arg].receiver
       \/ /\ hs[h].pc = "idle"
          /\ hs'[h].kind = "trade_decline"
          /\ hs'[h].user = offers[hs'[h].arg].receiver

DeclinedOffer(h) == offers[IF hs[h].pc = "idle" THEN hs'[h].arg ELSE hs[h].arg]

\* C9: a decline by the receiver leaves the sender's and the receiver's
\* inventories as they were (the sender holds the offered instance as often
\* as before), and no durable inventory row is inserted or deleted.
C9_DeclineFrame ==
    [][\A h \in Handlers :
          DeclineStep(h) =>
              /\ \A u \in Users :
                    u \in {DeclinedOffer(h).sender, DeclinedOffer(h).receiver}
                        => InventoryOf(u)' = InventoryOf(u)
              /\ dbInv' = dbInv]_vars

\* The entry the handler in slot h is inserting, in an inventory.
Holds(inv, h) ==
    \E i \in 1..Len(inv) :
        inv[i].instanceId = hs[h].iid /\ inv[i].cardId = hs[h].card

IsPrefix(s, t) == Len(s) <= Len(t) /\ SubSeq(t, 1, Len(s)) = s

\* C10: when the durable insert of a draw, pack, pick resolution or trade
\* fails, the entry is in the in-memory inventory the handler added it to,
\* the step removes nothing from any inventory, and the handler goes on to
\* its success response.
C10_WriteFailureKeepsMemory ==
    [][/\ \A h \in Handlers :
            hs[h].pc = "insert" /\ Steps(h) /\ dbInv' = dbInv =>
                /\ Holds(heap[hs[h].data].inventory, h)
                /\ \A i \in 1..Len(heap) :
                      heap'[i] = Collected
                          \/ IsPrefix(heap[i].inventory, heap'[i].inventory)
                /\ IF hs'[h].pc = "done" THEN fin'.failed ELSE hs'[h].failed
       /\ fin'.failed => fin'.resp = "ok"]_vars

\* B's draw answered with success; its entry is in memory and in no row.
C10_Witness ==
    /\ fin.failed
    /\ fin.kind = "draw"
    /\ fin.resp = "ok"
    /\ userData[fin.user] # 0
    /\ Len(InventoryOf(fin.user)) = 1
    /\ RowsOf(fin.user) = <<>>

\* An entry with the three values, in an inventory.
HoldsItem(inv, cardId, instanceId, obtainedAt) ==
    \E i \in 1..Len(inv) :
        /\ inv[i].cardId = cardId
        /\ inv[i].instanceId = instanceId
        /\ inv[i].obtainedAt = obtainedAt

FullSession(u) == LoadedSession(dbUsers[u], LoadedInventory(u))

Timestamps(s) == <<s.lastDraw, s.lastPack, s.lastPick>>

InventoryBefore(d, u) ==
    IF d <= Len(heap) THEN heap[d].inventory ELSE LoadedInventory(u)

\* t is s without its element at position p.
RemovedAt(s, t, p) ==
    /\ Len(t) = Len(s) - 1
    /\ \A k \in 1..Len(t) : t[k] = IF k < p THEN s[k] ELSE s[k + 1]

\* C13: /trash with an index outside [0, length) answers "invalid" and
\* changes no inventory in memory and no durable row; with an index inside
\* it removes exactly the entry at that position and keeps the others in
\* their order.
C13_TrashByIndex ==
    [][\A h \in Handlers :
          /\ Steps(h) /\ hs'[h].pc = "done" /\ fin'.kind = "trash"
             /\ hs[h].pc # "trash_delete"
             => /\ fin'.resp = "invalid"
                /\ LET n == Len(heap'[userData'[fin'.user]].inventory)
                   IN  fin'.arg < 0 \/ fin'.arg >= n
                /\ InventoriesKept
                /\ \A i \in (Len(heap) + 1)..Len(heap') :
                      heap'[i].inventory = LoadedInventory(fin'.user)
                /\ dbInv' = dbInv
                /\ fin'.wr = 0
          /\ Steps(h) /\ hs'[h].pc = "trash_delete"
             => LET d == hs'[h].data
                    before == InventoryBefore(d, hs'[h].user)
                    p == hs'[h].arg + 1
                IN  /\ p \in 1..Len(before)
                    /\ RemovedAt(before, heap'[d].inventory, p)
                    /\ hs'[h].iid = before[p].instanceId
                    /\ \A i \in 1..Len(heap) :
                          i # d => heap'[i] = Collected
                                    \/ heap'[i].inventory = heap[i].inventory
                    /\ dbInv' = dbInv]_vars

\* Of at least three entries the one at index 1 was removed.
C13_Witness ==
    \E h \in Handlers :
        /\ hs[h].pc = "trash_delete"
        /\ hs[h].arg = 1
        /\ Len(heap[hs[h].data].inventory) >= 2

\* C14: a pick button on a session with choices and a slot inside them
\* appends exactly one entry of the chosen card, and the handler ends with
\* pickChoices empty; a slot outside them answers "invalid", changes no
\* inventory and no pickChoices and issues no durable write.
C14_ResolveValidity ==
    [][\A h \in Handlers :
          /\ Steps(h) /\ hs'[h].pc = "insert" /\ hs'[h].kind = "resolve"
             => LET d == hs'[h].data
                    slot == hs'[h].arg + 1
                IN  /\ d <= Len(heap)
                    /\ slot \in 1..Len(heap[d].pickChoices)
                    /\ Len(heap'[d].inventory) = Len(heap[d].inventory) + 1
                    /\ IsPrefix(heap[d].inventory, heap'[d].inventory)
                    /\ heap'[d].inventory[Len(heap'[d].inventory)].cardId
                          = heap[d].pickChoices[slot]
                    /\ heap'[d].inventory[Len(heap'[d].inventory)].instanceId
                          = hs'[h].iid
                    /\ \A i \in 1..Len(heap) :
                          i # d => heap'[i] = Collected
                                    \/ heap'[i].inventory = heap[i].inventory
          /\ Steps(h) /\ hs[h].pc = "insert" /\ hs[h].kind = "resolve"
             => /\ heap'[hs[h].data].pickChoices = <<>>
                /\ InventoriesKept
                /\ fin'.resp = "ok"
          /\ Steps(h) /\ hs'[h].pc = "done" /\ fin'.kind = "resolve"
                /\ hs[h].pc # "insert"
             => LET s == heap'[userData'[fin'.user]]
                IN  /\ ObjectsKept
                    /\ dbInv' = dbInv
                    /\ fin'.wr = 0
                    /\ \/ fin'.resp = "nosession" /\ s.pickChoices = <<>>
                       \/ /\ fin'.resp = "invalid"
                          /\ s.pickChoices # <<>>
                          /\ fin'.arg + 1 \notin 1..Len(s.pickChoices)]_vars

\* A pick was resolved from the last slot and the choices were cleared.
C14_Witness ==
    /\ fin.kind = "resolve" /\ fin.resp = "ok" /\ fin.arg = pickSize - 1
    /\ userData[fin.user] # 0
    /\ heap[userData[fin.user]].pickChoices = <<>>
    /\ heap[userData[fin.user]].gained >= 1

\* The command the handler that steps is running.
KindOf(h) ==
    IF hs[h].pc # "idle" THEN hs[h].kind
    ELSE IF hs'[h].pc = "done" THEN fin'.kind ELSE hs'[h].kind

\* C15: with a catalog and no cooldown to wait for, every entry a /draw or
\* a /pack adds is added at the end, a /draw that succeeds has added exactly
\* one entry and a /pack exactly packSize; a /trash of index i removes one
\* entry, the one at position i, and adds none.
C15_AcquisitionCounts ==
    [][\A h \in Handlers :
          /\ Steps(h) /\ KindOf(h) \in {"draw", "pack"} /\ hs'[h].pc # "done"
                /\ hs'[h].data # 0
             => LET d == hs'[h].data
                    before == InventoryBefore(d, hs'[h].user)
                IN  /\ IsPrefix(before, heap'[d].inventory)
                    /\ Len(heap'[d].inventory) - Len(before)
                          = hs'[h].delta - hs[h].delta
                    /\ hs'[h].delta - hs[h].delta \in {0, 1}
          /\ Steps(h) /\ KindOf(h) \in {"draw", "pack"}
             => \A i \in 1..Len(heap) :
                   \/ heap'[i] = Collected
                   \/ heap'[i].inventory = heap[i].inventory
                   \/ i = hs'[h].data
          /\ Steps(h) /\ hs'[h].pc = "done" /\ fin'.kind \in {"draw", "pack"}
             => /\ InventoriesKept
                /\ fin'.resp = "ok" => fin'.delta = IF fin'.kind = "draw" THEN 1 ELSE packSize
                /\ fin'.resp # "ok" => fin'.delta = 0
          /\ Steps(h) /\ hs'[h].pc = "trash_delete"
             => LET d == hs'[h].data
                    before == InventoryBefore(d, hs'[h].user)
                IN  /\ hs'[h].delta = -1
                    /\ Len(heap'[d].inventory) = Len(before) - 1
                    /\ hs'[h].at = before[hs'[h].arg + 1].obtainedAt
                    /\ \A k \in 1..Len(heap'[d].inventory) :
                          heap'[d].inventory[k] = before[IF k <= hs'[h].arg THEN k ELSE k + 1]
          /\ Steps(h) /\ hs[h].pc = "trash_delete"
             => InventoriesKept /\ fin'.resp = "ok" /\ fin'.delta = -1]_vars

\* A new user drew, later opened a pack, and then trashed index 0: of the
\* six entries the five of the pack are left.
C15_Witness ==
    \E h \in Handlers :
        LET inv == heap[hs[h].data].inventory IN
        /\ hs[h].pc = "trash_delete" /\ hs[h].user = "B" /\ hs[h].arg = 0
        /\ Len(inv) = packSize
        /\ Len(RowsOf("B")) = 1 + packSize
        /\ \A k \in 1..Len(inv) : inv[k].obtainedAt > hs[h].at

\* The duration text of n whole seconds.
SecondsText(n) ==
    IF n >= 60
    THEN ToString(n \div 60) \o "m " \o ToString(n % 60) \o "s"
    ELSE ToString(n) \o "s"

\* C16: a denial computes cooldown - (now - last) milliseconds, which is
\* positive, smaller at every later instant before last + cooldown, and 0
\* at last + cooldown; its reply shows the least number of whole seconds
\* that covers it, which is never 0 seconds.
C16_RemainingWait ==
    fin.gate = "denied" =>
        LET cooldown == CooldownOf(fin.kind)
            wait(now) == cooldown - (now - fin.last)
            shown == CHOOSE n \in 0..(cooldown \div 1000 + 1) :
                        /\ n * 1000 >= fin.remaining
                        /\ (n - 1) * 1000 < fin.remaining
        IN  /\ fin.resp = "cooldown"
            /\ fin.remaining = wait(fin.now)
            /\ fin.remaining > 0
            /\ \A d \in WaitSteps :
                  fin.now + d < fin.last + cooldown =>
                      wait(fin.now + d) < fin.remaining /\ wait(fin.now + d) > 0
            /\ wait(fin.last + cooldown) = 0
            /\ shown >= 1
            /\ fin.text = SecondsText(shown)
            /\ fin.text \notin {"0s", "0m 0s"}

\* A draw denied one millisecond before the cooldown ends shows 1s.
C16_Witness ==
    /\ fin.gate = "denied" /\ fin.kind = "draw"
    /\ fin.remaining = 1
    /\ fin.text = "1s"

Composite(urls) == [k \in 1..3 |-> Image(urls[k])]

\* A composition of exactly these URLs in this order has succeeded.
Succeeded(urls) ==
    \E key \in DOMAIN combinedImageCache : combinedImageCache[key] = Composite(urls)

\* Call c starts in this step.
Begins(c) == calls[c].pc = "idle" /\ calls'[c].pc # "idle"

\* The arguments of the call that starts in this step.
UrlsOf(c) == IF calls'[c].pc = "done" THEN ret'.urls ELSE calls'[c].urls

\* C18: once a composition of three URLs has succeeded, a composition of
\* the same URLs in the same order returns at once the same buffer, issues
\* no request and renders nothing; a stored buffer is never replaced by a
\* different one; and the same URLs in another order are not answered from
\* the cache unless that order has succeeded too.
C18_CompositeCacheHit ==
    [][/\ \A c \in Calls :
             Begins(c) =>
                IF Succeeded(UrlsOf(c))
                THEN /\ calls'[c].pc = "done"
                     /\ ret'.hit
                     /\ ret'.result = Composite(UrlsOf(c))
                     /\ ret'.fetched = 0
                     /\ ~ret'.rendered
                     /\ imageCache' = imageCache
                     /\ combinedImageCache' = combinedImageCache
                ELSE calls'[c].pc = "done" => ~ret'.hit /\ ret'.rendered
       /\ \A key \in DOMAIN combinedImageCache :
             /\ key \in DOMAIN combinedImageCache'
             /\ combinedImageCache'[key] = combinedImageCache[key]]_vars

\* A composition was answered from the cache while the same URLs are also
\* stored in another order.
C18_Witness ==
    /\ ret.hit
    /\ ret.urls = <<"c1.png", "c2.png", "c1.png">>
    /\ ret.result = Composite(ret.urls)
    /\ Succeeded(<<"c2.png", "c1.png", "c1.png">>)

\* C19: a composition one of whose requests fails returns null in that
\* step, having rendered nothing, and stores nothing in the composite
\* cache; a buffer is returned only when all three images are there; and a
\* composition whose key is not stored does the work: it takes each image
\* from the image cache or requests it, and renders or waits.
C19_CompositeFailure ==
    [][\A c \in Calls :
          /\ calls[c].pc = "fetching" /\ calls'[c] # calls[c]
                /\ (\E k \in 1..3 : calls'[c].pc # "done" /\ calls'[c].slots[k] = Failed)
             => /\ calls'[c].pc = "orphan"
                /\ ret'.urls = calls[c].urls
                /\ ret'.result = Null
                /\ ~ret'.rendered
                /\ combinedImageCache' = combinedImageCache
          /\ calls[c].pc = "fetching" /\ calls'[c].pc = "done"
             => /\ ret'.urls = calls[c].urls
                /\ IF ret'.rendered
                   THEN /\ ret'.result = Composite(ret'.urls)
                        /\ \A k \in 1..3 : calls[c].slots[k] \in {Pending, Image(ret'.urls[k])}
                        /\ combinedImageCache'[CacheKey(ret'.urls)] = ret'.result
                   ELSE /\ ret'.result = Null
                        /\ combinedImageCache' = combinedImageCache
          /\ calls[c].pc = "orphan" /\ calls'[c] # calls[c]
             => combinedImageCache' = combinedImageCache /\ ret' = NoRet
          /\ Begins(c) /\ CacheKey(UrlsOf(c)) \notin DOMAIN combinedImageCache
             => \/ /\ calls'[c].pc = "fetching"
                   /\ calls'[c].fetched >= 1
                   /\ \A k \in 1..3 :
                         calls'[c].slots[k] = IF imageCache[calls'[c].urls[k]] = NoImage
                                              THEN Pending
                                              ELSE imageCache[calls'[c].urls[k]]
                \/ calls'[c].pc = "done" /\ ret'.rendered]_vars

\* A composition failed after one of its images had been fetched: the image
\* is cached, the composite is not.
C19_Witness ==
    /\ ret.result = Null /\ ret.urls = <<"c1.png", "c2.png", "c2.png">>
    /\ ~ret.rendered
    /\ imageCache["c1.png"] = Image("c1.png")
    /\ CacheKey(ret.urls) \notin DOMAIN combinedImageCache

\* C20: over the inventories of all cached sessions no instance id is borne
\* by two entries.
C20_InstanceIdUniqueness ==
    \A id \in InstanceIds : CountAll(heap, userData, id) <= 1

\* The handler at a suspension point of getUserData.
InLoad(r) == r.pc \in {"load_user", "load_inv", "load_insert"}

\* C21: a user whose session is cached stays cached, and a getUserData for
\* that user that begins then returns the cached session in the same step:
\* no durable read is begun and no durable row is touched.
C21_ServedFromMemory ==
    [][/\ \A u \in Users : userData[u] # 0 => userData'[u] # 0
       /\ \A h \in Handlers :
             /\ Steps(h) /\ InLoad(hs'[h]) /\ ~InLoad(hs[h])
                => userData[hs'[h].target] = 0
             /\ Steps(h) /\ hs[h].pc = "idle" /\ userData[Stepper(h)] # 0
                => /\ ~InLoad(hs'[h])
                   /\ dbUsers' = dbUsers /\ dbInv' = dbInv
                   /\ hs'[h].pc # "done"
                        => hs'[h].data \in {userData[hs'[h].user], userData'[hs'[h].user]}]_vars

\* The second handler works on the one session the first one loaded.
C21_Witness ==
    /\ hs[1].pc = "done"
    /\ hs[2].pc = "trash_delete"
    /\ Len(heap) = 1
    /\ hs[2].data = 1 /\ userData[hs[2].user] = 1

\* The last-action timestamp of a gated command in a session.
TimestampOf(s, kind) ==
    CASE kind = "draw" -> s.lastDraw
      [] kind = "pack" -> s.lastPack
      [] kind = "pick" -> s.lastPick

\* C22: a handler that has passed a gate and waits at a suspension point has
\* written its timestamp already; and no two handlers in progress on the one
\* cached session of a user have both passed the gate of the same action
\* within one cooldown.
C22_CheckThenAct ==
    /\ \A h \in Handlers :
          Running(h) /\ hs[h].gate = "passed"
             => TimestampOf(heap[hs[h].data], hs[h].kind) >= hs[h].now
    /\ \A h1, h2 \in Handlers :
          /\ h1 # h2 /\ Running(h1) /\ Running(h2)
          /\ hs[h1].gate = "passed" /\ hs[h2].gate = "passed"
          /\ hs[h1].kind = hs[h2].kind /\ hs[h1].user = hs[h2].user
          /\ hs[h1].data = hs[h2].data
          /\ CooldownOf(hs[h1].kind) > 0
          => \/ hs[h2].now - hs[h1].now >= CooldownOf(hs[h1].kind)
             \/ hs[h1].now - hs[h2].now >= CooldownOf(hs[h1].kind)

\* The durable rows of a user that bear an instance id.
RowsBearing(rows, u, id) ==
    {i \in 1..Len(rows) : rows[i].user_id = u /\ rows[i].instance_id = id}

\* C23: when the durable delete of a /trash has returned without error, the
\* store holds no row of the user for the removed instance, and as many rows
\* as before for every other instance.
C23_TrashMirrored ==
    [][\A h \in Handlers :
          hs[h].pc = "trash_delete" /\ Steps(h)
             => \A u \in {hs[h].user} : \A gone \in {hs[h].iid} :
                  /\ RowsBearing(dbInv', u, gone) = {}
                  /\ \A v \in Users : \A id \in InstanceIds :
                        <<v, id>> # <<u, gone>>
                           => Cardinality(RowsBearing(dbInv', v, id))
                                = Cardinality(RowsBearing(dbInv, v, id))]_vars

\* C24: an accept that found the instance changes both inventories in
\* memory before its first durable call, deletes the sender's row and then
\* inserts the receiver's; with both calls successful, the store then holds
\* exactly one row with the instance id, and it is the receiver's.
C24_TradeDurableEffect ==
    [][\A h \in Handlers :
          /\ Steps(h) /\ hs'[h].pc = "trade_delete"
             => hs'[h].xfer.did /\ hs'[h].wr = 0 /\ dbInv' = dbInv
          /\ Steps(h) /\ hs[h].pc = "trade_delete"
             => /\ hs'[h].pc = "insert"
                /\ \A o \in {offers[hs[h].arg]} :
                      RowsBearing(dbInv', o.sender, o.instanceId)
                         \subseteq RowsBearing(dbInv, o.sender, o.instanceId)
          /\ Steps(h) /\ hs[h].pc = "insert" /\ hs[h].kind = "trade_accept"
             => \A o \in {offers[hs[h].arg]} : \A c \in {hs[h].card} :
                  LET rows == {i \in 1..Len(dbInv') : dbInv'[i].instance_id = o.instanceId}
                  IN  /\ Cardinality(rows) = 1
                      /\ \A i \in rows : /\ dbInv'[i].user_id = o.receiver
                                          /\ dbInv'[i].card_id = c]_vars

\* C25: when a draw, a pack or a pick start that passed its gate and took a
\* card has ended with no durable failure, the durable record of the user
\* holds the three timestamps of the session.
C25_CooldownsMirrored ==
    /\ fin.kind \in {"draw", "pack", "pick"}
    /\ fin.gate = "passed"
    /\ fin.resp # "nocards"
    /\ ~fin.failed
    => LET s == heap[userData[fin.user]]
       IN  dbUsers[fin.user] = UserRow(s.lastDraw, s.lastPack, s.lastPick)

C27_PerUserOrdering ==
    [][\A i \in 1..Len(heap) :
          /\ \A j, k \in 1..Len(heap'[i].inventory) :
                j <= k => heap'[i].inventory[j].obtainedAt
                            <= heap'[i].inventory[k].obtainedAt
          /\ heap'[i].lastDraw >= heap[i].lastDraw
          /\ heap'[i].lastPack >= heap[i].lastPack
          /\ heap'[i].lastPick >= heap[i].lastPick]_vars

\* C28: with an empty catalog, no step of a draw, a pack or a pick start
\* changes a session object or the durable store, and the handler ends
\* with the error response.
C28_EmptyCatalog ==
    [][Len(cards) = 0
         => \A h \in Handlers :
               Steps(h) /\ KindOf(h) \in {"draw", "pack", "pick"}
                  => /\ \A i \in 1..Len(heap) : heap'[i] = heap[i]
                     /\ dbUsers' = dbUsers
                     /\ dbInv' = dbInv
                     /\ hs'[h].pc = "done" /\ fin'.gate # "denied"
                          => fin'.resp = "nocards"]_vars

\* C29: the step in which a pick start passes its gate with a catalog
\* stores the three cards it drew as the choices, whatever choices were
\* there, and sets lastPick to the handler's now, and leaves the inventory
\* and the other timestamps as they were; no later step of the handler, a
\* failed image composition included, changes the session; and every
\* session holds no choice or exactly three.
C29_StartPick ==
    [][/\ \A h \in Handlers :
             /\ Steps(h) /\ KindOf(h) = "pick" /\ hs[h].gate # "passed"
                   /\ hs'[h].gate = "passed"
                => LET d == hs'[h].data
                       s == heap'[d]
                   IN  /\ Len(cards) > 0
                       /\ Len(hs'[h].choices) = pickSize
                       /\ \A k \in 1..pickSize : hs'[h].choices[k] \in randomCard
                       /\ userData'[hs'[h].user] = d
                       /\ s.pickChoices = hs'[h].choices
                       /\ s.lastPick = hs'[h].now
                       /\ d \in 1..Len(heap)
                             => /\ s.inventory = heap[d].inventory
                                /\ s.lastDraw = heap[d].lastDraw
                                /\ s.lastPack = heap[d].lastPack
             /\ Steps(h) /\ hs[h].kind = "pick" /\ hs[h].gate = "passed"
                => /\ heap'[hs[h].data] = heap[hs[h].data]
                      \/ /\ heap'[hs[h].data] = Collected
                         /\ userData[hs[h].user] # hs[h].data
                   /\ userData' = userData
       /\ \A i \in 1..Len(heap') :
             Len(heap'[i].pickChoices) \in {0, pickSize}]_vars

\* A pick start replaced three choices still unresolved by three others,
\* and its image composition failed: the new choices and the timestamp stay.
C29_Witness ==
    /\ fin.kind = "pick" /\ fin.resp = "imagefail" /\ fin.gate = "passed"
    /\ userData[fin.user] # 0
    /\ heap[userData[fin.user]].pickChoices = <<"c2", "c1", "c2">>
    /\ heap[userData[fin.user]].lastPick = fin.now
    /\ \E h \in Handlers :
          /\ hs[h].kind = "pick" /\ hs[h].pc = "compose"
          /\ hs[h].data = userData[fin.user]
          /\ hs[h].choices = <<"c1", "c1", "c1">>

\* The timestamps of a session that belong to the other two actions.
OtherTimestamps(s, kind) ==
    CASE kind = "draw" -> <<s.lastPack, s.lastPick>>
      [] kind = "pack" -> <<s.lastDraw, s.lastPick>>
      [] kind = "pick" -> <<s.lastDraw, s.lastPack>>

\* The session the handler that steps finds, as far as its timestamps go:
\* the object it holds or is handed from the cache, or the one its load
\* builds in this step from the user record it read.
Found(h) ==
    LET r == hs[h]
        d == IF r.data # 0 THEN r.data
             ELSE IF r.pc = "idle" THEN userData[Stepper(h)]
             ELSE 0
    IN  IF d # 0 THEN heap[d] ELSE LoadedSession(r.lu, <<>>)

\* C30: no step of a draw, a pack or a pick start changes a timestamp of
\* the other two actions; the gate of each is decided by now, its cooldown
\* and its own timestamp alone; and a denied action ends at its gate having
\* changed no inventory, no timestamp and no pick choices and having issued
\* no durable write.
C30_IndependentGates ==
    [][\A h \in Handlers :
          Steps(h) /\ KindOf(h) \in {"draw", "pack", "pick"}
             => LET kind == KindOf(h)
                    gate == IF hs'[h].pc = "done" THEN fin'.gate ELSE hs'[h].gate
                    now == IF hs'[h].pc = "done" THEN fin'.now ELSE hs'[h].now
                IN  /\ \A i \in 1..Len(heap) :
                          \/ heap'[i] = Collected
                          \/ OtherTimestamps(heap'[i], kind)
                                = OtherTimestamps(heap[i], kind)
                    /\ hs[h].pc = "load_inv" /\ Len(heap') > Len(heap)
                          => OtherTimestamps(heap'[Len(heap')], kind)
                                = OtherTimestamps(Found(h), kind)
                    /\ hs[h].gate = "none" /\ gate # "none"
                          => /\ gate = "denied"
                                  <=> now - TimestampOf(Found(h), kind) < CooldownOf(kind)
                             /\ gate = "passed"
                                  <=> now - TimestampOf(Found(h), kind) >= CooldownOf(kind)
                    /\ gate = "denied"
                          => /\ hs'[h].pc = "done"
                             /\ fin'.resp = "cooldown"
                             /\ fin'.wr = 0
                             /\ dbUsers' = dbUsers /\ dbInv' = dbInv
                             /\ \A i \in 1..Len(heap) :
                                   heap'[i] = Collected \/ heap'[i] = heap[i]
                             /\ hs[h].pc = "load_inv" /\ Len(heap') > Len(heap)
                                   => /\ Timestamps(heap'[Len(heap')])
                                           = Timestamps(Found(h))
                                      /\ heap'[Len(heap')].pickChoices = <<>>]_vars

\* A pack was granted while the draw was on cooldown: it set lastPack and
\* left lastDraw and lastPick as they were.
C30_Witness ==
    /\ fin.kind = "pack" /\ fin.gate = "passed" /\ fin.resp = "ok"
    /\ userData[fin.user] # 0
    /\ heap[userData[fin.user]].lastPack = fin.now
    /\ heap[userData[fin.user]].lastDraw = StartClock
    /\ heap[userData[fin.user]].lastPick = 0
    /\ fin.now - StartClock < DRAW_COOLDOWN
    /\ fin.now > StartClock

\* How many rows of the user bear the instance id.
RowCount(u, id) == Cardinality(RowsBearing(dbInv, u, id))

\* C31: when no handler is in progress, every cached user has as many
\* durable rows of each instance id as in-memory entries of it.  (Stated
\* for the runs in which each session was loaded once and never replaced.)
C31_InventoriesAgree ==
    /\ \A h \in Handlers : ~Running(h)
    /\ Len(heap) = Cardinality({u \in Users : userData[u] # 0})
    => \A u \in Users :
             userData[u] # 0
                => \A id \in InstanceIds :
                      RowCount(u, id) = CountIn(heap[userData[u]].inventory, id)

\* C32: choices that a pick start stored while a resolve of the previous
\* pick session was suspended on its insert are still stored when that
\* resolve ends.  (gained = 0 with choices present: a pick start stored them
\* after the resolve added its entry.)
C32_NewPickSurvives ==
    [][\A h \in Handlers :
          /\ Steps(h) /\ hs[h].kind = "resolve" /\ hs[h].pc = "insert"
          /\ userData[hs[h].user] = hs[h].data
          /\ heap[hs[h].data].gained = 0
          /\ heap[hs[h].data].pickChoices # <<>>
          => heap'[hs[h].data].pickChoices = heap[hs[h].data].pickChoices]_vars

\* The offers an accept has completed a transfer for.
Transferred == {o \in 1..Len(offers) : "accepted" \in Range(offers[o].outcomes)}

\* The cached users whose inventory holds the instance.
Holders(id) ==
    {u \in Users : userData[u] # 0 /\ CountIn(heap[userData[u]].inventory, id) > 0}

\* C33: of the offers of one instance to two receivers at most one is
\* completed by an accept, and no two users hold the instance.
C33_OneInstanceManyOffers ==
    /\ Cardinality(Transferred) <= 1
    /\ Cardinality(Holders(1)) <= 1

\* C34: when a /reset_me was the last handler to finish and none is in
\* progress, the user's durable inventory has no row acquired before the
\* reset was dispatched, and as many rows of each instance id as the cached
\* inventory has entries of it.
C34_ResetComplete ==
    /\ fin.kind = "reset_me"
    /\ \A h \in Handlers : ~Running(h)
    => /\ \A i \in 1..Len(dbInv) :
             dbInv[i].user_id = fin.user => dbInv[i].obtained_at >= fin.now
       /\ \A i \in 1..Len(heap[userData[fin.user]].inventory) :
             heap[userData[fin.user]].inventory[i].obtainedAt >= fin.now
       /\ \A id \in InstanceIds :
             RowCount(fin.user, id) = CountIn(heap[userData[fin.user]].inventory, id)

\* The handler in slot h is a /trade and takes the step.
TradeStep(h) == Steps(h) /\ KindOf(h) = "trade"

\* C35: a /trade posts an offer only after it has found the target to be
\* another user and no bot and an entry with the instance id in the
\* proposer's session, and the offer it posts is from the proposer to that
\* target for that instance; no step of a /trade changes the inventory or
\* the timestamps of any user or a durable inventory row; and no offer has
\* its sender as its receiver.
C35_TradeProposal ==
    [][/\ \A h \in Handlers :
             TradeStep(h)
                => /\ hs'[h].pc = "post"
                        => /\ hs'[h].peer # hs'[h].user
                           /\ hs'[h].peer \notin Bots
                           /\ CountIn(heap'[hs'[h].data].inventory, hs'[h].iid) > 0
                   /\ offers' # offers
                        => /\ hs[h].pc = "post"
                           /\ offers' = Append(offers,
                                  [sender |-> hs[h].user, receiver |-> hs[h].peer,
                                   instanceId |-> hs[h].iid, open |-> TRUE,
                                   outcomes |-> <<>>])
                   /\ dbInv' = dbInv
                   /\ \A u \in Users :
                         /\ InventoryOf(u)' = InventoryOf(u)
                         /\ userData[u] # 0
                              => Timestamps(heap'[userData'[u]])
                                    = Timestamps(heap[userData[u]])
       /\ \A o \in 1..Len(offers') : offers'[o].sender # offers'[o].receiver]_vars

\* The requests for the URL that are in flight: the slots of the calls that
\* wait for its image.
InFlight(url) ==
    {ck \in Calls \X (1..3) :
        /\ calls[ck[1]].pc \in {"fetching", "orphan"}
        /\ ck[2] \in PendingSlots(calls[ck[1]])
        /\ calls[ck[1]].urls[ck[2]] = url}

\* C36: no URL has two requests in flight, no request is issued for a URL
\* whose image is in the image cache, and no entry of the image cache or
\* of the composite cache is removed or replaced by another.
C36_OneFetchPerUrl ==
    [][/\ \A url \in ImageUrls :
             /\ Cardinality(InFlight(url)') <= 1
             /\ imageCache[url] # NoImage
                  => /\ InFlight(url)' \subseteq InFlight(url)
                     /\ imageCache'[url] = imageCache[url]
       /\ \A key \in DOMAIN combinedImageCache :
             /\ key \in DOMAIN combinedImageCache'
             /\ combinedImageCache'[key] = combinedImageCache[key]]_vars

====
